---- MODULE Spec2Model ----
(***************************************************************************)
(* A model of the ray tracer of dannyrmrz/Proyecto2 (src/main.rs,          *)
(* src/cube.rs, src/sphere.rs).                                            *)
(*                                                                         *)
(* Numbers.  Lengths are integers counted in units of ORIGIN_BIAS (1e-4),  *)
(* so 1.0 is OneUnit = 10000 and the bias itself is 1.  A point is a       *)
(* homogeneous 4-tuple <<x, y, z, w>> (w > 0) standing for (x/w, y/w,      *)
(* z/w); a direction is an integer 3-tuple.  A ray parameter t is an       *)
(* extended rational [n, d]: d > 0 is the finite value n/d, d = 0 is       *)
(* +infinity (n = 1), -infinity (n = -1) or NaN (n = 0), with the IEEE-754 *)
(* rules the f32 code follows for division by zero, comparison and         *)
(* f32::max / f32::min.                                                    *)
(***************************************************************************)
EXTENDS Integers, Sequences, FiniteSets, TLC

VARIABLES
    fn_in,              \* the arguments of the pure function under test
    fn_out,             \* <<>> before the call, <<result>> after it
    objects,            \* the scene: the ordered list of cubes
    light,              \* the light
    texture_manager,    \* the ids of the textures that are loaded
    stack,              \* the cast_ray invocations in progress, innermost last
    status,             \* "idle", "running", "done" or "panicked"
    result,             \* the colour the outermost cast_ray returned
    stats,              \* what the evaluation has done so far
    main                \* the main loop: its position, the keys, the camera

fnVars == <<fn_in, fn_out>>
sceneVars == <<objects, light, texture_manager>>
castVars == <<objects, light, texture_manager, stack, status, result, stats>>
vars == <<fn_in, fn_out, objects, light, texture_manager, stack, status, result, stats, main>>

\* the colour Vector3::zero()
ColorZero == [kind |-> "zero"]

\* no pure function is under test
IdleFn == fn_in = <<>> /\ fn_out = <<>>
\* the main loop is not running
IdleMain == main = [pc |-> "idle"]
\* no cast_ray evaluation is set up
IdleCast ==
    /\ objects = <<>>
    /\ light = [position |-> <<0, 0, 0>>]
    /\ texture_manager = {}
    /\ stack = <<>>
    /\ status = "idle"
    /\ result = ColorZero
    /\ stats = <<>>

\* 1.0 in units of ORIGIN_BIAS = 1e-4
OneUnit == 10000
\* ORIGIN_BIAS itself, in those units
ORIGIN_BIAS == 1

----------------------------------------------------------------------------
(* f32 arithmetic on extended rationals *)

Abs(a) == IF a < 0 THEN -a ELSE a
Larger(a, b) == IF a < b THEN b ELSE a
Smaller(a, b) == IF a < b THEN a ELSE b
Sign(a) == IF a > 0 THEN 1 ELSE IF a < 0 THEN -1 ELSE 0

\* the element of a singleton set: The({F(v) : v \in {e}}) is F(e), with e
\* evaluated once however often F uses it
The(S) == CHOOSE v \in S : TRUE

RECURSIVE Gcd(_, _)
Gcd(a, b) == IF b = 0 THEN a ELSE The({Gcd(b, r) : r \in {a % b}})

FFin(n) == [n |-> n, d |-> 1]
FZero == FFin(0)
PosInf == [n |-> 1, d |-> 0]
NegInf == [n |-> -1, d |-> 0]
NaN == [n |-> 0, d |-> 0]
IsNaN(a) == a.d = 0 /\ a.n = 0

\* a / b in f32: x/0 is +-infinity by the sign of x, 0/0 is NaN
FDivBy(a, b, g) == [n |-> (Sign(b) * a) \div g, d |-> Abs(b) \div g]
FDiv(a, b) ==
    IF b = 0 THEN [n |-> Sign(a), d |-> 0]
    ELSE The({FDivBy(a, b, g) : g \in {Gcd(Abs(a), Abs(b))}})

\* p/q < r/s for q, s > 0, by continued fractions (no product is formed)
RECURSIVE FracLess(_, _, _, _)
FracLessBy(q, s, ip, ir, fp, fr) ==
    IF ip # ir THEN ip < ir
    ELSE IF fr = 0 THEN FALSE
    ELSE IF fp = 0 THEN TRUE
    ELSE FracLess(s, fr, q, fp)
FracLess(p, q, r, s) ==
    \E fp \in {p % q}, fr \in {r % s} : FracLessBy(q, s, p \div q, r \div s, fp, fr)

\* a < b in f32 (false when either side is NaN)
FLt(a, b) ==
    IF IsNaN(a) \/ IsNaN(b) THEN FALSE
    ELSE IF a.d = 0 /\ b.d = 0 THEN a.n < b.n
    ELSE IF a.d = 0 THEN a.n < 0
    ELSE IF b.d = 0 THEN b.n > 0
    ELSE FracLess(a.n, a.d, b.n, b.d)

FGt(a, b) == FLt(b, a)
FEq(a, b) == ~IsNaN(a) /\ ~IsNaN(b) /\ ~FLt(a, b) /\ ~FLt(b, a)

\* f32::max and f32::min: a NaN argument is ignored
FMax(a, b) == IF IsNaN(a) THEN b ELSE IF IsNaN(b) THEN a ELSE IF FLt(a, b) THEN b ELSE a
FMin(a, b) == IF IsNaN(a) THEN b ELSE IF IsNaN(b) THEN a ELSE IF FLt(b, a) THEN b ELSE a

----------------------------------------------------------------------------
(* Vector3 *)

Dot(a, b) == a[1] * b[1] + a[2] * b[2] + a[3] * b[3]
Neg(a) == <<-a[1], -a[2], -a[3]>>
VZero == <<0, 0, 0>>

ScaleDownP(p, g) ==
    IF g = 0 THEN p ELSE <<p[1] \div g, p[2] \div g, p[3] \div g, p[4] \div g>>
\* a homogeneous point with its common factor removed
ReduceP(p) ==
    The({ScaleDownP(p, g) : g \in {Gcd(Gcd(Abs(p[1]), Abs(p[2])), Gcd(Abs(p[3]), Abs(p[4])))}})

ScaleDownD(v, g) == IF g = 0 THEN v ELSE <<v[1] \div g, v[2] \div g, v[3] \div g>>
\* a direction with its common factor removed (its length does not matter to
\* the hit tests, which compare ray parameters of one ray with each other)
ReduceD(v) == The({ScaleDownD(v, g) : g \in {Gcd(Gcd(Abs(v[1]), Abs(v[2])), Abs(v[3]))}})

Pt(x, y, z) == <<x, y, z, 1>>

----------------------------------------------------------------------------
(* f32 rounding *)
(* The arithmetic of this model is exact; the program computes in f32.  A   *)
(* value that is no dyadic rational (1.4999, an origin offset by            *)
(* ORIGIN_BIAS, a coordinate reached along an oblique unit direction) is    *)
(* rounded there, and so is whatever is computed from it.  Each rounding    *)
(* moves a value by at most 2^-24 of its size; the size m of the roundings  *)
(* of a computed value is the sum of the sizes of the values rounded on the *)
(* way to it, each weighted by how much the result changes with it, and the *)
(* value is within m / 2^RoundBits of the exact one.  A comparison of two   *)
(* values that are computed without rounding comes out as it does here; one *)
(* of two values further apart than that bound does too; any other may come *)
(* out either way.                                                          *)
(* Every intersect carries, in the field exact (not a field of the          *)
(* struct), which of its parts are certain to be what the f32 code          *)
(* computes, and the sizes the roundings of its numbers are bounded by.     *)

\* n without its factors 2, n > 0
RECURSIVE OddPart(_)
OddPart(n) == IF n % 2 = 0 THEN The({OddPart(h) : h \in {n \div 2}}) ELSE n
\* num / den, den > 0, is a dyadic rational, which an f32 holds exactly when
\* its odd part has no more than the 24 bits of the mantissa
Dyadic(num, den) ==
    num = 0 \/ \E odd \in {OddPart(den)} : num % odd = 0 /\ OddPart(Abs(num) \div odd) < 2^24
\* the coordinate x / w, counted in units of ORIGIN_BIAS, is exact in f32
F32Coord(x, w) == Dyadic(x, w * OneUnit)
RECURSIVE IsPow2(_)
IsPow2(n) == n = 1 \/ (n > 1 /\ n % 2 = 0 /\ \E h \in {n \div 2} : IsPow2(h))

\* the roundings of a value whose roundings have the size m are within
\* m / 2^RoundBits: f32 has 24 bits, and one bit is left for the products of
\* two roundings
RoundBits == 23
\* the size of coordinate k of a point, in whole units of ORIGIN_BIAS
CoordSize(o, k) == Abs(o[k]) \div o[4] + 1
\* the least e in 0..30 with num <= den * 2^e, den > 0
MagBits(num, den) ==
    The({Cardinality({e \in 0..30 : n \div (2^e) >= d}) : n \in {num - 1}, d \in {den}})
\* floor(r * 2^k / d) for 0 <= r < d, room bits at a time so that no
\* product leaves the integers of TLC
RECURSIVE ShiftFrac(_, _, _, _)
ShiftFrac(r, d, k, room) ==
    IF k = 0 \/ room <= 0 THEN 0
    ELSE IF k <= room THEN (r * 2^k) \div d
    ELSE ((r * 2^room) \div d) * 2^(k - room)
             + ShiftFrac((r * 2^room) % d, d, k - room, room)
\* floor(x * 2^k) of the finite x
ShiftFloor(x, k) ==
    (x.n \div x.d) * 2^k
        + The({ShiftFrac(x.n % x.d, x.d, k, room) : room \in {30 - MagBits(x.d, 1)}})
\* the least whole number above the finite x >= 0
Ceil(x) == x.n \div x.d + 1
IsFinite(x) == x.d # 0
FAbs(x) == [n |-> Abs(x.n), d |-> x.d]
\* |a - b| <= m / 2^RoundBits, all three taken with k bits after the point
NearAt(a, b, m, k) ==
    k < 0 \/ Abs(ShiftFloor(a, k) - ShiftFloor(b, k)) <= ShiftFloor(m, k) \div 2^RoundBits + 2
\* the finite a and b are nearer than the roundings of values of size m:
\* a comparison of the two may come out either way in f32
NearOf(a, b, m) ==
    /\ IsFinite(a) /\ IsFinite(b)
    /\ \/ a.d >= 2^29 \/ b.d >= 2^29 \/ m.d >= 2^29
       \/ \E k \in {28 - MagBits(Ceil(FAbs(a)) + Ceil(FAbs(b)) + Ceil(m), 1)} :
              NearAt(a, b, m, k)
Near(a, b, m) == \E x \in {a} : \E y \in {b} : \E z \in {m} : NearOf(x, y, z)

\* every part is what the f32 code computes: the hit decision, the choice of
\* the nearest hit, the normal, each coordinate of the point, u and v, the
\* planes of the cube; nothing is rounded: the sizes that bound the
\* roundings of the distance (tm), of the coordinates of the point (pm, in
\* units of ORIGIN_BIAS), of u and of v (um, vm) are zero
Certain ==
    [hit |-> TRUE, nearest |-> TRUE, normal |-> TRUE, point |-> <<TRUE, TRUE, TRUE>>,
     u |-> TRUE, v |-> TRUE, plane |-> TRUE,
     tm |-> FZero, pm |-> <<0, 0, 0>>, um |-> FZero, vm |-> FZero]

\* Of a ray: which coordinates of its origin are exact in f32, whether its
\* direction is exact and divides exactly, the sizes (in units of
\* ORIGIN_BIAS) of the roundings of its origin (mag) and of its direction
\* (dmag, where 1 is the size of the component itself), and the scale dw
\* the direction is counted in: direction / dw is in units of ORIGIN_BIAS.
\* no size is counted beyond SizeCap, which is near everything
SizeCap == 2^28
SatMul(a, b) == IF a = 0 \/ b <= SizeCap \div a THEN a * b ELSE SizeCap
\* the size of the rounding of a number that is given, not computed
GivenMag(exact, size) == IF exact THEN 0 ELSE size
\* the greatest |component| of a direction
MaxAbs(dir) == Larger(Larger(Abs(dir[1]), Abs(dir[2])), Abs(dir[3]))
\* the size of the roundings of component k of a direction of cast_ray, of
\* which dir_mag are the sizes of the components that are not zero: a
\* component that is zero is exact, and so is a unit vector along an axis
UnitDirMag(dir, dir_mag, exact, k) == IF exact \/ dir[k] = 0 THEN 0 ELSE dir_mag[k]
\* A ray given to ray_intersect as it stands: its direction is exact, and a
\* quotient by it is when every component is a power of two
DirExact(dir) == \A k \in 1..3 : dir[k] = 0 \/ IsPow2(Abs(dir[k]))
RayExact(o, dir) ==
    [origin |-> <<F32Coord(o[1], o[4]), F32Coord(o[2], o[4]), F32Coord(o[3], o[4])>>,
     dir |-> DirExact(dir),
     mag |-> <<GivenMag(F32Coord(o[1], o[4]), CoordSize(o, 1)),
               GivenMag(F32Coord(o[2], o[4]), CoordSize(o, 2)),
               GivenMag(F32Coord(o[3], o[4]), CoordSize(o, 3))>>,
     dmag |-> <<0, 0, 0>>, dw |-> 1]
\* the direction has one component that is not zero
IsAxis(dir) ==
    \/ dir[1] # 0 /\ dir[2] = 0 /\ dir[3] = 0
    \/ dir[1] = 0 /\ dir[2] # 0 /\ dir[3] = 0
    \/ dir[1] = 0 /\ dir[2] = 0 /\ dir[3] # 0
\* A ray of cast_ray, whose direction stands for the unit vector: that is
\* exact along an axis only
UnitRayExact(o, origin_exact, origin_mag, dir, dir_mag) ==
    [origin |-> origin_exact, dir |-> IsAxis(dir),
     mag |-> <<GivenMag(origin_exact[1], Larger(origin_mag[1], CoordSize(o, 1))),
               GivenMag(origin_exact[2], Larger(origin_mag[2], CoordSize(o, 2))),
               GivenMag(origin_exact[3], Larger(origin_mag[3], CoordSize(o, 3)))>>,
     dmag |-> <<UnitDirMag(dir, dir_mag, IsAxis(dir), 1),
                UnitDirMag(dir, dir_mag, IsAxis(dir), 2),
                UnitDirMag(dir, dir_mag, IsAxis(dir), 3)>>,
     dw |-> 1]
\* the whole ray is exact: so is every t and every point on it
AllExact(rx) == rx.dir /\ rx.origin[1] /\ rx.origin[2] /\ rx.origin[3]
\* coordinate k of origin + direction * t is exact, for a t that is (exact)
\* or is not
CoordExact(rx, dir, k, exact) == (exact /\ AllExact(rx)) \/ (dir[k] = 0 /\ rx.origin[k])

----------------------------------------------------------------------------
(* Material, Intersect *)

NoneId == "None"

\* Material::new(diffuse, specular, albedo, refractive_index, texture_id,
\* normal_map_id, emissive); albedo in hundredths, refractive_index a
\* rational <<num, den>>, the colours kept by name
Material(name, albedo, ri, tex, nmap) ==
    [name |-> name, albedo |-> albedo, refractive_index |-> ri,
     texture_id |-> tex, normal_map_id |-> nmap]

MaterialBlack == Material("black", <<0, 0, 0, 0>>, <<0, 1>>, NoneId, NoneId)

\* Intersect::new
IntersectNew(point, normal, distance, material, u, v) ==
    [is_intersecting |-> TRUE, point |-> point, normal |-> normal,
     distance |-> distance, material |-> material, u |-> u, v |-> v, exact |-> Certain]

\* Intersect::empty, the no-hit sentinel
IntersectEmpty ==
    [is_intersecting |-> FALSE, point |-> Pt(0, 0, 0), normal |-> VZero,
     distance |-> FZero, material |-> MaterialBlack, u |-> FZero, v |-> FZero,
     exact |-> Certain]

----------------------------------------------------------------------------
(* Cube (src/cube.rs) *)

Cube(center, size, material) == [center |-> center, size |-> size, material |-> material]

\* min and max of axis k (cube.rs:40-42), doubled: 2 * (center -+ size / 2)
Min2(cube, k) == 2 * cube.center[k] - cube.size
Max2(cube, k) == 2 * cube.center[k] + cube.size

\* f32::clamp(0.0, 1.0) of num/den, den >= 0: NaN (0/0) stays NaN
Clamp01(num, den) ==
    IF den = 0 /\ num = 0 THEN NaN
    ELSE IF num < 0 THEN FZero ELSE IF num > den THEN FFin(1) ELSE FDiv(num, den)

\* The components of a face normal are -1, 0, 1 or the f32 NaN, which SignNaN
\* stands for among the whole numbers.
SignNaN == 2
\* |x| > |y| on two such components: no comparison holds of NaN
AbsGt(x, y) == x # SignNaN /\ y # SignNaN /\ Abs(x) > Abs(y)

\* Cube::get_uv; local is the numerator of point - center over pw
CubeGetUV(cube, local, pw, normal) ==
    IF AbsGt(normal[1], normal[2]) /\ AbsGt(normal[1], normal[3])
    THEN <<Clamp01(2 * local[3] + cube.size * pw, 2 * cube.size * pw),
           Clamp01(2 * local[2] + cube.size * pw, 2 * cube.size * pw)>>
    ELSE IF AbsGt(normal[2], normal[3])
    THEN <<Clamp01(2 * local[1] + cube.size * pw, 2 * cube.size * pw),
           Clamp01(2 * local[3] + cube.size * pw, 2 * cube.size * pw)>>
    ELSE <<Clamp01(2 * local[1] + cube.size * pw, 2 * cube.size * pw),
           Clamp01(2 * local[2] + cube.size * pw, 2 * cube.size * pw)>>

\* the per-axis swap (cube.rs:48-56): <<t_min, t_max>>
SwapIfGreater(a, b) == IF FGt(a, b) THEN <<b, a>> ELSE <<a, b>>

\* the two slab parameters of one axis, after the swap: (lo - o / w) / dk and
\* (hi - o / w) / dk
SlabAxis(lo, hi, o, w, dk) ==
    The({SwapIfGreater(a, b) : a \in {FDiv(lo * w - o, dk * w)}, b \in {FDiv(hi * w - o, dk * w)}})

\* f32::signum of a / w, w >= 0: NaN for NaN (0/0), 1.0 for +0.0, for every
\* positive number and for +infinity, -1.0 for the negative ones
Signum(a, w) == IF a = 0 /\ w = 0 THEN SignNaN ELSE IF a < 0 THEN -1 ELSE 1

\* The face normal chosen from the local hit point local / pw (cube.rs:66-74).
\* With pw = 0 the coordinates are NaN or infinite, all three alike (the point
\* is origin + direction * t for an infinite t), and no > holds between them.
CubeNormal(local, pw) ==
    IF pw # 0 /\ Abs(local[1]) > Abs(local[2]) /\ Abs(local[1]) > Abs(local[3])
    THEN <<Signum(local[1], pw), 0, 0>>
    ELSE IF pw # 0 /\ Abs(local[2]) > Abs(local[3]) THEN <<0, Signum(local[2], pw), 0>>
    ELSE <<0, 0, Signum(local[3], pw)>>

\* t_enter and t_exit from the three swapped pairs (cube.rs:58-59)
SlabsEnterExit(sx, sy, sz) ==
    [t_enter |-> The({FMax(t, sz[1]) : t \in {FMax(sx[1], sy[1])}}),
     t_exit |-> The({FMin(t, sz[2]) : t \in {FMin(sx[2], sy[2])}})]

\* <<t_min, t_max>> of the three axes (cube.rs:40-56)
CubeAxes(cube, o, dir) ==
    <<SlabAxis(Min2(cube, 1), Max2(cube, 1), 2 * o[1], o[4], 2 * dir[1]),
      SlabAxis(Min2(cube, 2), Max2(cube, 2), 2 * o[2], o[4], 2 * dir[2]),
      SlabAxis(Min2(cube, 3), Max2(cube, 3), 2 * o[3], o[4], 2 * dir[3])>>
\* t_enter and t_exit of the slab test (cube.rs:40-59)
CubeSlabs(cube, o, dir) ==
    The({SlabsEnterExit(ax[1], ax[2], ax[3]) : ax \in {CubeAxes(cube, o, dir)}})

SlabHit_NoInside(s) ==
    [is_intersecting |-> FLt(s.t_enter, s.t_exit) /\ FGt(s.t_exit, FZero),
     distance |-> s.t_enter]

\* whether the slab test reports a hit, and at which t (cube.rs:61-62)
SlabHit(s) ==
    [is_intersecting |-> FLt(s.t_enter, s.t_exit) /\ FGt(s.t_exit, FZero),
     distance |-> IF FGt(s.t_enter, FZero) THEN s.t_enter ELSE s.t_exit]

\* is_intersecting and distance of Cube::ray_intersect
CubeHit(cube, o, dir) == The({SlabHit(s) : s \in {CubeSlabs(cube, o, dir)}})

\* origin + direction * t
PointAt(o, dir, t) ==
    The({ReduceP(p) : p \in {<<o[1] * t.d + dir[1] * t.n * o[4],
                                o[2] * t.d + dir[2] * t.n * o[4],
                                o[3] * t.d + dir[3] * t.n * o[4],
                                o[4] * t.d>>}})

\* point - center, as numerators over point[4]
LocalPoint(point, c) ==
    <<point[1] - c[1] * point[4], point[2] - c[2] * point[4], point[3] - c[3] * point[4]>>

CubeIntersectUV(cube, t, point, normal, uv) ==
    IntersectNew(point, normal, t, cube.material, uv[1], uv[2])
CubeIntersectNormal(cube, t, point, local, normal) ==
    The({CubeIntersectUV(cube, t, point, normal, uv) :
            uv \in {CubeGetUV(cube, local, point[4], normal)}})
CubeIntersectLocal(cube, t, point, local) ==
    The({CubeIntersectNormal(cube, t, point, local, normal) : normal \in {CubeNormal(local, point[4])}})
\* the hit record built at the hit point (cube.rs:63-78)
CubeIntersectAt(cube, t, point) ==
    The({CubeIntersectLocal(cube, t, point, local) : local \in {LocalPoint(point, cube.center)}})
CubeIntersectOf(cube, o, dir, h) ==
    IF h.is_intersecting
    THEN The({CubeIntersectAt(cube, h.distance, point) : point \in {PointAt(o, dir, h.distance)}})
    ELSE IntersectEmpty

\* center and size are exact in f32, and so are half_size, min and max
CubeIsExact(cube) ==
    /\ F32Coord(cube.center[1], 1) /\ F32Coord(cube.center[2], 1) /\ F32Coord(cube.center[3], 1)
    /\ \/ cube.size % OneUnit = 0 /\ IsPow2(cube.size \div OneUnit)
       \/ OneUnit % cube.size = 0 /\ IsPow2(OneUnit \div cube.size)
\* the size of the roundings of min and max of axis k (cube.rs:40-42)
PlaneMag(cube, k) == IF CubeIsExact(cube) THEN 0 ELSE 2 * Abs(cube.center[k]) + cube.size + 1
\* no less than |min - origin| and |max - origin| of axis k
Reach(cube, o, k) == Abs(cube.center[k]) + cube.size \div 2 + 1 + CoordSize(o, k)
\* direction[k] is zero in the f32 code as it is here
ZeroDir(rx, dir, k) == dir[k] = 0 /\ rx.dmag[k] = 0
\* |direction[k]| in whole units of ORIGIN_BIAS
DirSize(rx, dir, k) == Abs(dir[k]) \div rx.dw
\* direction[k] is not zero, and more than 4096 times its rounding
SolidDir(rx, dir, k) == DirSize(rx, dir, k) > 0 /\ rx.dmag[k] < 4096
\* the size of the roundings of a quotient by direction[k], counted in the
\* quotient
DirMag(rx, dir, k) == rx.dmag[k] + 1
\* the size of the roundings of min - origin and max - origin of axis k
\* where the two are close
DiffMag(cube, rx, k) == PlaneMag(cube, k) + rx.mag[k]
\* the size of the roundings of t_min and t_max of axis k (cube.rs:44-45):
\* those of the plane and of the origin, of the difference, of the quotient
\* and of the direction
AxisMag(cube, o, dir, rx, k) ==
    IF ~SolidDir(rx, dir, k) THEN FZero
    ELSE FDiv(DiffMag(cube, rx, k) + Reach(cube, o, k) * (2 + DirMag(rx, dir, k)), Abs(dir[k]))
AxisMags(cube, o, dir, rx) ==
    <<AxisMag(cube, o, dir, rx, 1), AxisMag(cube, o, dir, rx, 2), AxisMag(cube, o, dir, rx, 3)>>
\* the size the sign of t_min and t_max of axis k is decided by: the sign is
\* that of min - origin or max - origin, whatever the quotient
SignMag(cube, dir, rx, k) ==
    IF dir[k] = 0 THEN FZero ELSE FDiv(2 * DiffMag(cube, rx, k), Abs(dir[k]))
SignMags(cube, dir, rx) ==
    <<SignMag(cube, dir, rx, 1), SignMag(cube, dir, rx, 2), SignMag(cube, dir, rx, 3)>>
\* coordinate k of the origin is for certain on the side of each plane of
\* axis k that it is on here (decides whether t_min and t_max of an axis
\* the ray does not move along are -inf, +inf or NaN)
PlaneApart(cube, o, rx, k) ==
    \/ rx.origin[k] /\ CubeIsExact(cube)
    \/ \A p2 \in {Min2(cube, k), Max2(cube, k)} :
           ~Near(FDiv(o[k], o[4]), FDiv(p2, 2), FFin(2 * DiffMag(cube, rx, k)))
\* t_min and t_max of axis k are what the f32 code computes, to within
\* AxisMag
SureAxis(cube, o, dir, rx, k) ==
    \/ SolidDir(rx, dir, k)
    \/ ZeroDir(rx, dir, k) /\ PlaneApart(cube, o, rx, k)
SureAxes(cube, o, dir, rx) == {k \in 1..3 : SureAxis(cube, o, dir, rx, k)}
\* the size of the roundings of a difference of two values whose roundings
\* have the sizes a and b
PairMag(a, b) ==
    The({FDiv(2 * x.n, x.d) : x \in {The({FMax(y, z) : y \in {a}, z \in {b}})}})
\* a < b, and b < a is false, whatever the roundings of size m
ClearLess(a, b, m) == FLt(a, b) /\ ~Near(a, b, m)
ClearNotLess(a, b, m) == ~IsNaN(a) /\ ~IsNaN(b) /\ ~FLt(a, b) /\ ~Near(a, b, m)
\* min - origin and max - origin of axis k are exact, and with them the
\* signs of t_min and t_max
SignExact(cube, rx, k) == rx.origin[k] /\ CubeIsExact(cube)
SignsExact(cube, rx) == <<SignExact(cube, rx, 1), SignExact(cube, rx, 2), SignExact(cube, rx, 3)>>
\* t > 0.0 for certain, and for certain not; e: the sign of t is exact
Above0(t, m, e) == FGt(t, FZero) /\ (e \/ ~Near(t, FZero, m))
NotAbove0(t, m, e) == ~IsNaN(t) /\ ~FGt(t, FZero) /\ (e \/ ~Near(t, FZero, m))
\* t_enter < t_exit && t_exit > 0.0 (cube.rs:61) holds for certain: every
\* t_min is below every t_max, every t_max above 0 (f32::max and f32::min
\* pass a NaN by)
HitCertain(ax, am, sm, sure, ez) ==
    /\ sure = 1..3
    /\ \A j, k \in 1..3 :
           IsNaN(ax[j][1]) \/ IsNaN(ax[k][2])
               \/ ClearLess(ax[j][1], ax[k][2], PairMag(am[j], am[k]))
    /\ \A k \in 1..3 : IsNaN(ax[k][2]) \/ Above0(ax[k][2], sm[k], ez[k])
\* it fails for certain
MissCertain(ax, am, sm, sure, ez) ==
    \/ \E j, k \in sure : ClearNotLess(ax[j][1], ax[k][2], PairMag(am[j], am[k]))
    \/ \E k \in sure : NotAbove0(ax[k][2], sm[k], ez[k])
\* t_enter > 0.0 (cube.rs:62) is certain
EnterCertain(ax, sm, sure, ez) ==
    \/ \E j \in sure : Above0(ax[j][1], sm[j], ez[j])
    \/ sure = 1..3 /\ \A j \in 1..3 : IsNaN(ax[j][1]) \/ NotAbove0(ax[j][1], sm[j], ez[j])
SlabsCertain(ax, am, sm, sure, ez) ==
    \/ MissCertain(ax, am, sm, sure, ez)
    \/ HitCertain(ax, am, sm, sure, ez) /\ EnterCertain(ax, sm, sure, ez)
\* the tests of cube.rs:61-62 are certain: nothing is rounded, or the values
\* compared are further apart than their roundings
SlabsExact(cube, o, dir, rx) ==
    \/ CubeIsExact(cube) /\ AllExact(rx)
    \/ \E ax \in {CubeAxes(cube, o, dir)}, am \in {AxisMags(cube, o, dir, rx)},
          sure \in {SureAxes(cube, o, dir, rx)}, sm \in {SignMags(cube, dir, rx)},
          ez \in {SignsExact(cube, rx)} :
           SlabsCertain(ax, am, sm, sure, ez)
\* the size that bounds the rounding of the distance t: the largest of the
\* axes a slab parameter of which is t, or as near to it as the roundings
DistMagAxis(ax, am, t, k) ==
    IF Near(ax[k][1], t, am[k]) \/ Near(ax[k][2], t, am[k]) THEN am[k] ELSE FZero
DistMagOf(ax, am, t) ==
    The({The({FMax(xy, z) : xy \in {FMax(x, y)}}) :
            x \in {DistMagAxis(ax, am, t, 1)}, y \in {DistMagAxis(ax, am, t, 2)},
            z \in {DistMagAxis(ax, am, t, 3)}})
DistMag(cube, o, dir, rx, t) ==
    The({DistMagOf(ax, am, t) :
            ax \in {CubeAxes(cube, o, dir)}, am \in {AxisMags(cube, o, dir, rx)}})
\* the sizes of the roundings of the coordinates of origin + direction * t
\* (cube.rs:63), for a t rounded by m: those of the origin, of t, of the
\* direction, of the product and of the sum; c: the coordinate is exact
PointMagAxis(o, dir, rx, m, point, c, k) ==
    IF c[k] THEN 0
    ELSE IF ~SolidDir(rx, dir, k) THEN rx.mag[k]
    ELSE Smaller(SizeCap,
                 rx.mag[k] + SatMul(Abs(dir[k]), Ceil(m)) + CoordSize(point, k)
                     + (CoordSize(point, k) + CoordSize(o, k)) * (1 + DirMag(rx, dir, k)))
PointMag(o, dir, rx, m, point, c) ==
    <<PointMagAxis(o, dir, rx, m, point, c, 1), PointMagAxis(o, dir, rx, m, point, c, 2),
      PointMagAxis(o, dir, rx, m, point, c, 3)>>
\* |local[j]| and |local[k]| are nearer than their roundings
LocalNear(cube, local, pw, pm, j, k) ==
    Near(FDiv(Abs(local[j]), pw), FDiv(Abs(local[k]), pw),
         FFin(pm[j] + pm[k] + 2 * (Abs(cube.center[j]) + Abs(cube.center[k]) + cube.size + 1)))
\* the axes whose |local| coordinate is the greatest, or as near to it as
\* the roundings
MaxAxes(cube, local, pw, pm) ==
    {k \in 1..3 : \A j \in 1..3 :
        Abs(local[k]) >= Abs(local[j]) \/ LocalNear(cube, local, pw, pm, j, k)}
\* the comparisons of cube.rs:68-74 are certain: one axis is the greatest
\* by more than the roundings, or the coordinates that come near are exact
NormalExact(cube, local, pw, c, pm) ==
    \/ c[1] /\ c[2] /\ c[3] /\ CubeIsExact(cube)
    \/ \A j, k \in MaxAxes(cube, local, pw, pm) : j = k \/ (c[j] /\ c[k] /\ CubeIsExact(cube))
\* the axes u and v are taken from (cube.rs:19-34)
UVAxes(normal) ==
    IF AbsGt(normal[1], normal[2]) /\ AbsGt(normal[1], normal[3]) THEN <<3, 2>>
    ELSE IF AbsGt(normal[2], normal[3]) THEN <<1, 3>>
    ELSE <<1, 2>>
\* the sizes of the roundings of the hit point: along the axis of a face
\* that is hit for certain the point is the plane itself but for the
\* roundings of the plane, of t and of the point, whatever those of the
\* origin and of the direction
HitMagAxis(cube, o, i, pm, normal, c, k) ==
    IF ~c[k] /\ normal /\ i.normal[k] # 0 THEN PlaneMag(cube, k) + 4 * Reach(cube, o, k)
    ELSE pm[k]
HitMag(cube, o, i, pm, normal, c) ==
    <<HitMagAxis(cube, o, i, pm, normal, c, 1), HitMagAxis(cube, o, i, pm, normal, c, 2),
      HitMagAxis(cube, o, i, pm, normal, c, 3)>>
\* the size of the rounding of (local[k] + half_size) / size (cube.rs:21-32)
UVMag(cube, pm, k) == FDiv(pm[k] + 2 * Abs(cube.center[k]) + 4 * cube.size, cube.size)
CubeExactUV(cube, o, i, hit, normal, c, uv, m, pm) ==
    [hit |-> hit, nearest |-> TRUE, normal |-> normal, point |-> c,
     u |-> normal /\ c[uv[1]] /\ CubeIsExact(cube),
     v |-> normal /\ c[uv[2]] /\ CubeIsExact(cube),
     plane |-> CubeIsExact(cube),
     tm |-> m, pm |-> HitMag(cube, o, i, pm, normal, c),
     um |-> UVMag(cube, pm, uv[1]), vm |-> UVMag(cube, pm, uv[2])]
CubeExactAt(cube, o, i, hit, c, m, pm) ==
    The({CubeExactUV(cube, o, i, hit, normal, c, uv, m, pm) :
            normal \in {The({NormalExact(cube, local, i.point[4], c, pm) :
                                local \in {LocalPoint(i.point, cube.center)}})},
            uv \in {UVAxes(i.normal)}})
CubeExactPoint(cube, o, dir, rx, i, m, hit, c) ==
    The({CubeExactAt(cube, o, i, hit, c, m, pm) : pm \in {PointMag(o, dir, rx, m, i.point, c)}})
CubeExactOf(cube, o, dir, rx, i, m) ==
    The({CubeExactPoint(cube, o, dir, rx, i, m, hit, c) :
            hit \in {SlabsExact(cube, o, dir, rx)},
            c \in {<<CoordExact(rx, dir, 1, CubeIsExact(cube)),
                     CoordExact(rx, dir, 2, CubeIsExact(cube)),
                     CoordExact(rx, dir, 3, CubeIsExact(cube))>>}})
\* what of the intersect i of the cube is certain: everything when the cube
\* and the whole ray are exact
CubeExact(cube, o, dir, rx, i) ==
    IF CubeIsExact(cube) /\ AllExact(rx) THEN Certain
    ELSE IF i.is_intersecting
    THEN The({CubeExactOf(cube, o, dir, rx, i, m) : m \in {DistMag(cube, o, dir, rx, i.distance)}})
    ELSE [Certain EXCEPT !.hit = SlabsExact(cube, o, dir, rx)]
CubeMarked(cube, o, dir, rx, i) == [i EXCEPT !.exact = CubeExact(cube, o, dir, rx, i)]
CubeOfSlabs(cube, o, dir, rx, s) ==
    The({CubeMarked(cube, o, dir, rx, i) :
            i \in {The({CubeIntersectOf(cube, o, dir, h) : h \in {SlabHit(s)}})}})
\* Cube::ray_intersect on a ray whose exactness in f32 is rx
CubeRayIntersectAs(cube, o, dir, rx) ==
    The({CubeOfSlabs(cube, o, dir, rx, s) : s \in {CubeSlabs(cube, o, dir)}})

\* Cube::ray_intersect
CubeRayIntersect(cube, o, dir) == CubeRayIntersectAs(cube, o, dir, RayExact(o, dir))

----------------------------------------------------------------------------
(* Cube::ray_intersect as a pure function: SpecCube *)

\* coordinates of ray origins, in half units, and the far coordinate 5.0
MaxCoord == 2
\* direction components range over -MaxDir..MaxDir
MaxDir == 1

Half == OneUnit \div 2
CubeCoords == {k * Half : k \in -MaxCoord..MaxCoord} \cup {-5 * OneUnit, 5 * OneUnit}
Dirs == (-MaxDir..MaxDir) \X (-MaxDir..MaxDir) \X (-MaxDir..MaxDir)

MatFlat == Material("flat", <<100, 0, 0, 0>>, <<0, 1>>, NoneId, NoneId)
UnitCube == Cube(VZero, OneUnit, MatFlat)
TestCubes == {UnitCube, Cube(<<Half, 0, 0>>, Half, MatFlat)}

CubeInputs ==
    {[cube |-> c, origin |-> Pt(o[1], o[2], o[3]), direction |-> d] :
        c \in TestCubes, o \in CubeCoords \X CubeCoords \X CubeCoords, d \in Dirs}

InitCube ==
    /\ fn_in \in CubeInputs
    /\ fn_out = <<>>
    /\ IdleCast
    /\ IdleMain

CallCubeRayIntersect ==
    /\ fn_out = <<>>
    /\ fn_out' = <<CubeRayIntersect(fn_in.cube, fn_in.origin, fn_in.direction)>>
    /\ UNCHANGED fn_in
    /\ UNCHANGED <<castVars, main>>

NextCube == CallCubeRayIntersect

SpecCube == InitCube /\ [][NextCube]_vars

CubeCalled == Len(fn_out) = 1
CubeOut == fn_out[1]

\* the slab bounds of one axis as the claim words them: the nearer and the
\* farther of the two plane distances, infinite (or, on the plane itself,
\* absent) when the direction component is zero
C5Near(lo, hi, o, w, dk) ==
    IF dk > 0 THEN FDiv(lo * w - o, dk * w)
    ELSE IF dk < 0 THEN FDiv(hi * w - o, dk * w)
    ELSE IF o > lo * w THEN NegInf ELSE IF o < lo * w THEN PosInf ELSE NaN
C5Far(lo, hi, o, w, dk) ==
    IF dk > 0 THEN FDiv(hi * w - o, dk * w)
    ELSE IF dk < 0 THEN FDiv(lo * w - o, dk * w)
    ELSE IF o < hi * w THEN PosInf ELSE IF o > hi * w THEN NegInf ELSE NaN
C5Axis(k, far) ==
    LET c == fn_in.cube.center[k]
        h == fn_in.cube.size \div 2
        o == fn_in.origin
    IN  IF far THEN C5Far(c - h, c + h, o[k], o[4], fn_in.direction[k])
        ELSE C5Near(c - h, c + h, o[k], o[4], fn_in.direction[k])
C5Bounds(far) == {b \in {C5Axis(k, far) : k \in 1..3} : ~IsNaN(b)}
C5Entry ==
    IF C5Bounds(FALSE) = {} THEN NaN
    ELSE CHOOSE m \in C5Bounds(FALSE) : \A b \in C5Bounds(FALSE) : ~FLt(m, b)
C5Exit ==
    IF C5Bounds(TRUE) = {} THEN NaN
    ELSE CHOOSE m \in C5Bounds(TRUE) : \A b \in C5Bounds(TRUE) : ~FLt(b, m)
C5IsInstance ==
    /\ fn_in.cube = UnitCube
    /\ fn_in.origin = Pt(0, 0, 5 * OneUnit)
    /\ fn_in.direction = <<0, 0, -1>>

\* C5: Cube.ray_intersect reports a hit iff entry < exit and exit > 0, entry
\* being the greatest near slab distance and exit the least far slab
\* distance; the distance is entry when entry > 0, else exit, so it is > 0;
\* otherwise the no-hit sentinel is returned.  From (0,0,5) along (0,0,-1)
\* the unit cube at the origin is hit at 4.5 with normal (0,0,1).
C5_CubeSlabHit ==
    CubeCalled =>
        /\ CubeOut.is_intersecting <=> (FLt(C5Entry, C5Exit) /\ FGt(C5Exit, FZero))
        /\ CubeOut.is_intersecting =>
              /\ FEq(CubeOut.distance, IF FGt(C5Entry, FZero) THEN C5Entry ELSE C5Exit)
              /\ FGt(CubeOut.distance, FZero)
        /\ ~CubeOut.is_intersecting => CubeOut = IntersectEmpty
        /\ C5IsInstance =>
              /\ CubeOut.is_intersecting
              /\ FEq(CubeOut.distance, FDiv(9 * OneUnit, 2))
              /\ CubeOut.normal = <<0, 0, 1>>

\* the instance of C5 has been computed and is a hit
C5_Witness == CubeCalled /\ C5IsInstance /\ CubeOut.is_intersecting

\* the hit point relative to the cube centre (numerators over point[4])
C6Local ==
    LET p == CubeOut.point
        c == fn_in.cube.center
    IN  <<p[1] - c[1] * p[4], p[2] - c[2] * p[4], p[3] - c[3] * p[4]>>
C6MaxAxes == {k \in 1..3 : \A j \in 1..3 : Abs(C6Local[k]) >= Abs(C6Local[j])}
C6Unit(k) == [j \in 1..3 |-> IF j = k THEN Signum(C6Local[k], CubeOut.point[4]) ELSE 0]
C6First == CHOOSE k \in C6MaxAxes : \A j \in C6MaxAxes : k <= j
C6Last == CHOOSE k \in C6MaxAxes : \A j \in C6MaxAxes : k >= j

\* C6: for every cube hit the normal is the signed unit vector of the axis
\* with the largest absolute local coordinate, a tie going to the axis that
\* comes first in x, y, z.  cube.rs does not do this.
C6_TieToFirstAxis ==
    (CubeCalled /\ CubeOut.is_intersecting) =>
        /\ SignNaN \notin {CubeOut.normal[k] : k \in 1..3}
        /\ CubeOut.normal = C6Unit(C6First)

\* What cube.rs:68-74 does: the comparisons are strict, so a tie falls through
\* to the axis that comes last in x, y, z (y over x, z over x and y); and at
\* the NaN point of a zero direction, where no comparison holds, the normal
\* is (0, 0, NaN).
CubeNormalFallsThrough ==
    (CubeCalled /\ CubeOut.is_intersecting) =>
        /\ CubeOut.normal = C6Unit(C6Last)
        /\ (SignNaN \in {CubeOut.normal[k] : k \in 1..3}) <=> (fn_in.direction = VZero)
        /\ fn_in.direction = VZero =>
              /\ CubeOut.distance = PosInf
              /\ CubeOut.normal = <<0, 0, SignNaN>>
              /\ IsNaN(CubeOut.u) /\ IsNaN(CubeOut.v)

\* a hit on the edge between an x face and a y face, given the y normal; the
\* two coordinates are equal in f32 as well
C6_Witness ==
    /\ CubeCalled
    /\ CubeOut.is_intersecting
    /\ fn_in.cube = UnitCube
    /\ fn_in.origin = Pt(OneUnit, OneUnit, 0)
    /\ fn_in.direction = <<-1, -1, 0>>
    /\ C6MaxAxes = {1, 2}
    /\ CubeOut.normal = <<0, 1, 0>>
    /\ CubeOut.exact.normal

\* a hit from inside the cube along the zero direction: the normal is
\* (0, 0, NaN)
C6_WitnessNaN ==
    /\ CubeCalled
    /\ CubeOut.is_intersecting
    /\ fn_in.direction = VZero
    /\ CubeOut.normal = <<0, 0, SignNaN>>

----------------------------------------------------------------------------
(* whole square roots *)

RECURSIVE FloorSqrtIn(_, _, _)
\* the greatest s in lo..hi with s * s <= n, by bisection; lo * lo <= n
FloorSqrtIn(n, lo, hi) ==
    IF lo = hi THEN lo
    ELSE The({IF mid > n \div mid THEN FloorSqrtIn(n, lo, mid - 1) ELSE FloorSqrtIn(n, mid, hi) :
                 mid \in {(lo + hi + 1) \div 2}})
\* the greatest integer s with s * s <= n < 2^31, which is below 2^16
FloorSqrt(n) == IF n <= 0 THEN 0 ELSE FloorSqrtIn(n, 0, Smaller(n, 2^16 - 1))
IsSquare(n) == n >= 0 /\ \E s \in {FloorSqrt(n)} : s * s = n
\* f32::sqrt of a perfect square, as refract takes it: every use is guarded
\* by IsSquare
ISqrt(n) == The({s \in {FloorSqrt(n)} : n >= 0 /\ s * s = n})

----------------------------------------------------------------------------
(* f32 arithmetic as IEEE 754 does it: every operation gives the f32        *)
(* nearest to the exact result, a tie going to the even significand.  An    *)
(* f32 is [m, e] and stands for m * 2^e, with m = 0 and e = 0, or with      *)
(* 2^23 <= |m| < 2^24.  Exponents stay far inside the range of f32, so no   *)
(* result is infinite or subnormal; the sign of a zero is not kept.         *)

F32Zero == [m |-> 0, e |-> 0]

\* m * 2^e for |m| <= 2^24, brought to the form above (by 12 bits, by 4 bits
\* and by single bits)
RECURSIVE F32Norm(_, _)
F32Norm(m, e) ==
    IF m = 0 THEN F32Zero
    ELSE IF Abs(m) >= 2^24 THEN [m |-> m \div 2, e |-> e + 1]
    ELSE IF Abs(m) < 2^12 THEN F32Norm(m * 2^12, e - 12)
    ELSE IF Abs(m) < 2^20 THEN F32Norm(m * 2^4, e - 4)
    ELSE IF Abs(m) < 2^23 THEN F32Norm(2 * m, e - 1)
    ELSE [m |-> m, e |-> e]

\* the whole number n, |n| <= 2^24, as f32
F32Int(n) == F32Norm(n, 0)
F32Neg(x) == [m |-> -x.m, e |-> x.e]
F32Signed(negative, x) == IF negative THEN F32Neg(x) ELSE x

\* The f32 nearest to (q + r) * 2^e, for a whole q > 0 and 0 <= r < 1 with
\* r > 0 iff sticky; q >= 2^24 when sticky.  Bits are dropped one at a time,
\* the last one deciding the rounding: up when it is 1 and anything lower is
\* set (sticky) or, on a tie, the kept significand is odd.
RECURSIVE F32Narrow(_, _, _)
F32Narrow(q, sticky, e) ==
    IF q < 2^24 THEN F32Norm(q, e)
    ELSE IF q < 2^25
    THEN F32Norm(q \div 2
                    + (IF q % 2 = 1 /\ (sticky \/ (q \div 2) % 2 = 1) THEN 1 ELSE 0), e + 1)
    ELSE F32Narrow(q \div 2, sticky \/ q % 2 = 1, e + 1)

\* x + y for exponents at most 6 apart, e the lower of the two: the exact sum
\* fits 31 bits
F32AddNear(x, y, e) ==
    The({F32Signed(sum < 0, F32Narrow(Abs(sum), FALSE, e)) :
            sum \in {x.m * 2^(x.e - e) + y.m * 2^(y.e - e)}})
\* big + small for big.e = small.e + 6 + k, k > 0: big is given 6 more bits,
\* small is cut by k bits, and what is cut off is kept as the sticky bit (a
\* cut off part that is subtracted borrows one from the bits above it)
F32AddCut(b, kept, sticky, same, e) ==
    IF same THEN F32Narrow(b * 64 + kept, sticky, e)
    ELSE F32Narrow(b * 64 - kept - (IF sticky THEN 1 ELSE 0), sticky, e)
F32AddFar(big, small, k) ==
    F32Signed(big.m < 0,
        F32AddCut(Abs(big.m), IF k > 24 THEN 0 ELSE Abs(small.m) \div 2^k,
                  k > 24 \/ Abs(small.m) % 2^k # 0, (big.m < 0) = (small.m < 0), big.e - 6))
\* f32 addition
F32Add(x, y) ==
    IF x.m = 0 THEN y
    ELSE IF y.m = 0 THEN x
    ELSE IF x.e >= y.e
    THEN IF x.e - y.e <= 6 THEN F32AddNear(x, y, y.e) ELSE F32AddFar(x, y, x.e - y.e - 6)
    ELSE IF y.e - x.e <= 6 THEN F32AddNear(x, y, x.e) ELSE F32AddFar(y, x, y.e - x.e - 6)
\* f32 subtraction
F32Sub(x, y) == F32Add(x, F32Neg(y))

\* the product hi * 2^24 + lo, lo < 2^25, of two 24-bit significands: the
\* carry of lo goes to hi, and the 48 bits are cut to 26 and a sticky bit
F32MulParts(hi, lo, e) ==
    F32Narrow((hi + lo \div 2^24) * 4 + (lo % 2^24) \div 2^22, lo % 2^22 # 0, e + 22)
\* the product of xh * 2^12 + xl and yh * 2^12 + yl, in 12-bit halves
F32MulHalves(xh, xl, yh, yl, e) ==
    The({F32MulParts(xh * yh + cross \div 2^12, (cross % 2^12) * 2^12 + xl * yl, e) :
            cross \in {xh * yl + xl * yh}})
\* f32 multiplication
F32Mul(x, y) ==
    IF x.m = 0 \/ y.m = 0 THEN F32Zero
    ELSE F32Signed((x.m < 0) # (y.m < 0),
             F32MulHalves(Abs(x.m) \div 2^12, Abs(x.m) % 2^12,
                          Abs(y.m) \div 2^12, Abs(y.m) % 2^12, x.e + y.e))

\* The quotient by long division: q is the whole part of n * 2^j / d and rem
\* the remainder, one more bit per step until q has 26 bits.
RECURSIVE F32DivBits(_, _, _, _)
F32DivBits(q, rem, d, e) ==
    IF q >= 2^25 THEN F32Narrow(q, rem # 0, e)
    ELSE IF 2 * rem >= d THEN F32DivBits(2 * q + 1, 2 * rem - d, d, e - 1)
    ELSE F32DivBits(2 * q, 2 * rem, d, e - 1)
\* f32 division, y not zero
F32Div(x, y) ==
    IF x.m = 0 THEN F32Zero
    ELSE F32Signed((x.m < 0) # (y.m < 0),
             F32DivBits(Abs(x.m) \div Abs(y.m), Abs(x.m) % Abs(y.m), Abs(y.m), x.e - y.e))

\* The square root digit by digit: root is the whole part of sqrt(n * 4^j)
\* and rem = n * 4^j - root^2, one more bit per step until root has 26 bits.
RECURSIVE F32SqrtBits(_, _, _)
F32SqrtBits(root, rem, e) ==
    IF root >= 2^25 THEN F32Narrow(root, rem # 0, e)
    ELSE IF 4 * rem >= 4 * root + 1
    THEN F32SqrtBits(2 * root + 1, 4 * rem - (4 * root + 1), e - 1)
    ELSE F32SqrtBits(2 * root, 4 * rem, e - 1)
\* sqrt(n * 4^e)
F32SqrtOf(n, e) == The({F32SqrtBits(root, n - root * root, e) : root \in {FloorSqrt(n)}})
\* f32::sqrt of x >= 0
F32Sqrt(x) ==
    IF x.m = 0 THEN F32Zero
    ELSE IF x.e % 2 = 0 THEN F32SqrtOf(x.m, x.e \div 2)
    ELSE F32SqrtOf(2 * x.m, (x.e - 1) \div 2)

\* Vector3 of three whole numbers
F32Vec(v) == <<F32Int(v[1]), F32Int(v[2]), F32Int(v[3])>>
\* Vector3 + Vector3, Vector3 - Vector3, Vector3 * f32, Vector3 / f32
F32VAdd(a, b) == <<F32Add(a[1], b[1]), F32Add(a[2], b[2]), F32Add(a[3], b[3])>>
F32VSub(a, b) == <<F32Sub(a[1], b[1]), F32Sub(a[2], b[2]), F32Sub(a[3], b[3])>>
F32VMul(a, k) == <<F32Mul(a[1], k), F32Mul(a[2], k), F32Mul(a[3], k)>>
F32VDiv(a, k) == <<F32Div(a[1], k), F32Div(a[2], k), F32Div(a[3], k)>>
\* Vector3::length: (x * x + y * y + z * z).sqrt()
F32Length(a) ==
    F32Sqrt(F32Add(F32Add(F32Mul(a[1], a[1]), F32Mul(a[2], a[2])), F32Mul(a[3], a[3])))
F32Inverse(length) == F32Div(F32Int(1), IF length.m = 0 THEN F32Int(1) ELSE length)
\* Vector3::normalized: the vector times 1.0 / length, the length 0 taken as 1
F32Normalized(a) == The({F32VMul(a, ilength) : ilength \in {F32Inverse(F32Length(a))}})

----------------------------------------------------------------------------
(* Sphere (src/sphere.rs): SpecSphere.  Centre, radius, ray origin and      *)
(* direction are whole numbers; what is computed from them is f32.          *)

Sphere(center, radius, material) ==
    [center |-> center, radius |-> radius, material |-> material]

Sub(a, b) == <<a[1] - b[1], a[2] - b[2], a[3] - b[3]>>

\* The coefficients of the quadratic and its discriminant (sphere.rs:23-29).
\* They are whole numbers below 2^24: f32 computes them without rounding.
SphereDiscriminant(a, b, c) == [a |-> a, b |-> b, c |-> c, discriminant |-> b * b - 4 * a * c]
SphereCoefficients(oc, dir, radius) ==
    SphereDiscriminant(Dot(dir, dir), 2 * Dot(oc, dir), Dot(oc, oc) - radius * radius)
SphereQuadratic(sphere, o, dir) == SphereCoefficients(Sub(o, sphere.center), dir, sphere.radius)

\* Sphere::get_uv (sphere.rs:13-18): normalized = (point - center) / radius
\* is computed; atan2 and asin are not, u stands for
\* 0.5 + atan2(x, z) / (2 PI) and v for 0.5 - asin(y) / PI of the f32 given
SphereUVOf(normalized) ==
    <<[atan2 |-> <<normalized[1], normalized[3]>>], [asin |-> normalized[2]]>>
SphereGetUV(sphere, point) ==
    SphereUVOf(F32VDiv(F32VSub(point, F32Vec(sphere.center)), F32Int(sphere.radius)))

\* (point - self.center).normalized() (sphere.rs:35)
SphereNormal(sphere, point) == F32Normalized(F32VSub(point, F32Vec(sphere.center)))
SphereIntersectUV(sphere, t, point, normal, uv) ==
    IntersectNew(point, normal, t, sphere.material, uv[1], uv[2])
SphereIntersectNormal(sphere, t, point, normal) ==
    The({SphereIntersectUV(sphere, t, point, normal, uv) : uv \in {SphereGetUV(sphere, point)}})
\* the hit record at parameter t (sphere.rs:35-39)
SphereIntersectAt(sphere, t, point) ==
    The({SphereIntersectNormal(sphere, t, point, normal) :
            normal \in {SphereNormal(sphere, point)}})
\* *ray_origin + *ray_direction * t (sphere.rs:34)
SpherePoint(o, dir, t) == F32VAdd(F32Vec(o), F32VMul(F32Vec(dir), t))
\* the test of t and the hit (sphere.rs:33-39)
SphereHitAt(sphere, o, dir, t) ==
    IF t.m > 0
    THEN The({SphereIntersectAt(sphere, t, point) : point \in {SpherePoint(o, dir, t)}})
    ELSE IntersectEmpty

SphereRoot_LargerRoot(sphere, o, dir, q, s) ==
    IF F32Div(F32Sub(F32Int(-q.b), s), F32Int(2 * q.a)).m > 0
    THEN SphereHitAt(sphere, o, dir, F32Div(F32Sub(F32Int(-q.b), s), F32Int(2 * q.a)))
    ELSE SphereHitAt(sphere, o, dir, F32Div(F32Add(F32Int(-q.b), s), F32Int(2 * q.a)))

\* t = (-b - discriminant.sqrt()) / (2.0 * a) and what follows (sphere.rs:32-39);
\* s is the square root of the discriminant
SphereRoot(sphere, o, dir, q, s) ==
    The({SphereHitAt(sphere, o, dir, t) :
            t \in {F32Div(F32Sub(F32Int(-q.b), s), F32Int(2 * q.a))}})

\* the test of the discriminant (sphere.rs:31), a positive one having a > 0
SphereSolve(sphere, o, dir, q) ==
    IF q.discriminant > 0
    THEN The({SphereRoot(sphere, o, dir, q, s) : s \in {F32Sqrt(F32Int(q.discriminant))}})
    ELSE IntersectEmpty

\* Sphere::ray_intersect
SphereRayIntersect(sphere, o, dir) ==
    The({SphereSolve(sphere, o, dir, q) : q \in {SphereQuadratic(sphere, o, dir)}})

----------------------------------------------------------------------------
(* reflect, refract, offset_origin (src/main.rs:62-96) *)
(* A direction d stands for the unit vector d / |d|; a normal is a unit     *)
(* axis vector or, in SpecRefract, any integer vector standing for its      *)
(* normalisation.  refractive_index is the rational <<num, den>>.           *)

\* reflect(incident, normal) for a unit axis normal, then .normalized()
Reflect(incident, normal) ==
    The({ReduceD(r) : r \in {<<incident[1] - 2 * normal[1] * Dot(incident, normal),
                               incident[2] - 2 * normal[2] * Dot(incident, normal),
                               incident[3] - 2 * normal[3] * Dot(incident, normal)>>}})

\* Some(incident * eta + n * (eta * cosi - sqrt(k))), scaled by
\* eb * |incident| * |n|^2 to integers, for a rational root = sqrt(knum)
RefractRoot(incident, n, cabs, ea, knum, root) ==
    [some |-> TRUE,
     exact |-> root * root = knum,
     critical |-> FALSE,
     dir |-> The({ReduceD(r) : r \in {<<ea * Dot(n, n) * incident[1] + n[1] * (ea * cabs - root),
                                        ea * Dot(n, n) * incident[2] + n[2] * (ea * cabs - root),
                                        ea * Dot(n, n) * incident[3] + n[3] * (ea * cabs - root)>>}})]
\* the same vector when sqrt(knum) is irrational: it is kept as the
\* expression base - along * sqrt(radicand), which has no integer direction
RefractSurd(incident, n, cabs, ea, knum) ==
    [some |-> TRUE,
     exact |-> FALSE,
     critical |-> FALSE,
     dir |-> [base |-> <<ea * Dot(n, n) * incident[1] + n[1] * ea * cabs,
                         ea * Dot(n, n) * incident[2] + n[2] * ea * cabs,
                         ea * Dot(n, n) * incident[3] + n[3] * ea * cabs>>,
              along |-> n, radicand |-> knum]]
\* exact tells whether sqrt(k) is rational
RefractSome(incident, n, cabs, ea, knum) ==
    IF IsSquare(knum)
    THEN The({RefractRoot(incident, n, cabs, ea, knum, root) : root \in {ISqrt(knum)}})
    ELSE RefractSurd(incident, n, cabs, ea, knum)

\* None, when k is negative by more than its rounding
RefractNone == [some |-> FALSE, exact |-> TRUE, critical |-> FALSE, dir |-> VZero]

\* k, computed in f32 from two unit vectors and eta (main.rs:76-89), is
\* within its rounding of 0: |k| is no more than 32 / 2^RoundBits of the
\* larger of 1 and eta^2 (1 - cosi^2); one is 1 in the scale of knum,
\* eb^2 * |incident|^2 * |n|^2
RefractCritical(knum, one) ==
    Abs(knum) <= (IF knum < 0 THEN one - knum ELSE one) \div 2^(RoundBits - 5)
\* critical: the test k < 0.0 (main.rs:91) may come out either way in f32,
\* and with it whether the ray is refracted
RefractMarked(r, critical) == [r EXCEPT !.critical = critical, !.exact = @ /\ ~critical]

\* k < 0 => None (main.rs:91-95); knum is k * eb^2 * |incident|^2 * |n|^2
RefractK(incident, n, cabs, ea, knum, one) ==
    RefractMarked(IF knum < 0 THEN RefractNone ELSE RefractSome(incident, n, cabs, ea, knum),
                  RefractCritical(knum, one))

\* eta = ea / eb and k = 1 - eta^2 (1 - cosi^2) (main.rs:88-89), with
\* cosi = cabs / (|incident| |n|)
RefractEta(incident, n, cabs, ea, eb) ==
    The({RefractK(incident, n, cabs, ea, knum, eb * eb * Dot(incident, incident) * Dot(n, n)) :
            knum \in {eb * eb * Dot(incident, incident) * Dot(n, n)
                        - ea * ea * (Dot(incident, incident) * Dot(n, n) - cabs * cabs)}})

RefractDot_NoSwap(incident, normal, ri, c) ==
    RefractEta(incident, normal, Abs(c), ri[2], ri[1])

\* the swap of etai and etat by the sign of cosi (main.rs:76-86)
RefractDot(incident, normal, ri, c) ==
    IF c > 0
    THEN RefractEta(incident, Neg(normal), c, ri[1], ri[2])
    ELSE RefractEta(incident, normal, -c, ri[2], ri[1])

\* refract(incident, normal, refractive_index)
Refract(incident, normal, ri) == RefractDot(incident, normal, ri, Dot(incident, normal))

\* offset_origin(intersect, direction)
OffsetOrigin(intersect, direction) ==
    IF Dot(direction, intersect.normal) < 0
    THEN <<intersect.point[1] - intersect.normal[1] * ORIGIN_BIAS * intersect.point[4],
           intersect.point[2] - intersect.normal[2] * ORIGIN_BIAS * intersect.point[4],
           intersect.point[3] - intersect.normal[3] * ORIGIN_BIAS * intersect.point[4],
           intersect.point[4]>>
    ELSE <<intersect.point[1] + intersect.normal[1] * ORIGIN_BIAS * intersect.point[4],
           intersect.point[2] + intersect.normal[2] * ORIGIN_BIAS * intersect.point[4],
           intersect.point[3] + intersect.normal[3] * ORIGIN_BIAS * intersect.point[4],
           intersect.point[4]>>

\* the unit normals of the faces of a cube
AxisNormals == {<<1, 0, 0>>, <<-1, 0, 0>>, <<0, 1, 0>>, <<0, -1, 0>>, <<0, 0, 1>>, <<0, 0, -1>>}
\* the glass of main.rs:339
GlassIndex == <<3, 2>>

----------------------------------------------------------------------------
(* TextureManager (textures.rs is not among the sources): the loaded ids *)

SkyboxId == "assets/skybox.jpg"
\* every loaded texture is TexSize x TexSize pixels
TexSize == 4

\* get_texture: Some(texture) for a loaded id, None otherwise
GetTexture(tm, id) ==
    IF id \in tm THEN [some |-> TRUE, width |-> TexSize, height |-> TexSize]
    ELSE [some |-> FALSE, width |-> 0, height |-> 0]
\* get_pixel_color
GetPixelColor(id, tx, ty) == [kind |-> "texel", id |-> id, tx |-> tx, ty |-> ty]
\* get_normal_from_map: a flat normal map, (0, 0, 1) in tangent space
GetNormalFromMap(id, tx, ty) == <<0, 0, 1>>

\* (u * width as f32) as u32
PixelIndex(u, width) == (u.n * width) \div u.d

\* skybox_color; the colour is kept as the normalised direction it is
\* sampled at, and by which of the two modes
SkyboxColor(dir, tm) == [kind |-> "skybox", dir |-> ReduceD(dir), textured |-> SkyboxId \in tm]

----------------------------------------------------------------------------
(* cast_shadow (src/main.rs:98-116) *)

\* light.position - intersect.point, not normalised: point[4] times the
\* vector to the light, so that the light is at ray parameter 1 / point[4]
LightDir(l, point) ==
    <<l.position[1] * point[4] - point[1], l.position[2] * point[4] - point[2],
      l.position[3] * point[4] - point[3]>>

ShadowBlocks_AnyHit(h, light_distance) == h.is_intersecting

\* shadow_intersect.is_intersecting && shadow_intersect.distance < light_distance
ShadowBlocks(h, light_distance) == h.is_intersecting /\ FLt(h.distance, light_distance)

\* the loop over the objects with its early return: 1.0 at the first object
\* that blocks, 0.0 when none does; of each shadow intersection only
\* is_intersecting and distance are read
ShadowScan(objs, o, dir, light_distance) ==
    IF \E k \in 1..Len(objs) :
           \E h \in {CubeHit(objs[k], o, dir)} : ShadowBlocks(h, light_distance)
    THEN 1 ELSE 0

CastShadowAlong(intersect, light_dir, objs) ==
    The({ShadowScan(objs, o, light_dir, light_distance) :
            o \in {OffsetOrigin(intersect, light_dir)},
            light_distance \in {FDiv(1, intersect.point[4])}})

\* cast_shadow(intersect, light, objects)
CastShadow(intersect, l, objs) ==
    The({CastShadowAlong(intersect, light_dir, objs) :
            light_dir \in {LightDir(l, intersect.point)}})

\* which coordinates of offset_origin(intersect, ..) are exact: the bias
\* 1e-4 is rounded
OffsetExact(intersect) ==
    <<intersect.exact.point[1] /\ intersect.normal[1] = 0,
      intersect.exact.point[2] /\ intersect.normal[2] = 0,
      intersect.exact.point[3] /\ intersect.normal[3] = 0>>
\* the size of the roundings of coordinate k of the hit point
PointErr(intersect, k) ==
    GivenMag(intersect.exact.point[k],
             Larger(intersect.exact.pm[k], CoordSize(intersect.point, k)))
\* the sizes of the roundings of offset_origin(intersect, ..): those of the
\* point, and along the normal the rounding of the sum
OffsetMagAxis(intersect, k) ==
    PointErr(intersect, k)
        + (IF intersect.normal[k] # 0 THEN CoordSize(intersect.point, k) + 2 ELSE 0)
OffsetMag(intersect) ==
    <<OffsetMagAxis(intersect, 1), OffsetMagAxis(intersect, 2), OffsetMagAxis(intersect, 3)>>
\* coordinate k of light.position - intersect.point is exact
LightCoordExact(intersect, light_dir, k) ==
    /\ intersect.exact.point[k]
    /\ F32Coord(light_dir[k] + intersect.point[k], intersect.point[4])
LightDirExact(intersect, light_dir) ==
    \A k \in 1..3 : LightCoordExact(intersect, light_dir, k)
\* the size of light.position[k], where it is rounded
LightMag(intersect, light_dir, k) ==
    GivenMag(F32Coord(light_dir[k] + intersect.point[k], intersect.point[4]),
             Abs(light_dir[k] + intersect.point[k]) \div intersect.point[4] + 1)
\* the size of the roundings of light.position[k] - intersect.point[k]
\* (main.rs:103): those of the light, of the point and of the difference
LightDiffMag(intersect, light_dir, k) ==
    IF LightCoordExact(intersect, light_dir, k) THEN 0
    ELSE LightMag(intersect, light_dir, k) + PointErr(intersect, k)
             + Abs(light_dir[k]) \div intersect.point[4] + 1
\* the size of the roundings of component k of the unit vector to the
\* light, counted in the component: those of the difference and those of
\* normalized()
LightDirMagAxis(intersect, light_dir, k) ==
    IF LightDiffMag(intersect, light_dir, k) = 0
    THEN (IF light_dir[k] = 0 THEN 0 ELSE 5)
    ELSE IF Abs(light_dir[k]) < intersect.point[4] THEN SizeCap
    ELSE LightDiffMag(intersect, light_dir, k) \div (Abs(light_dir[k]) \div intersect.point[4]) + 5
LightDirMag(intersect, light_dir) ==
    <<LightDirMagAxis(intersect, light_dir, 1), LightDirMagAxis(intersect, light_dir, 2),
      LightDirMagAxis(intersect, light_dir, 3)>>
\* the shadow ray: its origin is offset, the unit vector to the light is
\* rounded
ShadowRayExact(intersect, light_dir) ==
    [origin |-> OffsetExact(intersect), dir |-> FALSE,
     mag |-> OffsetMag(intersect), dmag |-> LightDirMag(intersect, light_dir),
     dw |-> intersect.point[4]]
\* the size of the roundings of light_distance (main.rs:104), counted as
\* the distances along light_dir are: the light is at 1 / w
LightDistMag(intersect, light_dir) ==
    FDiv(LightDiffMag(intersect, light_dir, 1) + LightDiffMag(intersect, light_dir, 2)
             + LightDiffMag(intersect, light_dir, 3)
             + 3 * (MaxAbs(light_dir) \div intersect.point[4] + 1),
         (MaxAbs(light_dir) \div intersect.point[4]) * intersect.point[4])
\* the hit test and the distance test of one object are certain; ldm: the
\* size of the roundings of light_distance, not finite for a light nearer
\* than ORIGIN_BIAS
ShadowObjectExact(cube, o, dir, rx, s, light_distance, ldm) ==
    /\ SlabsExact(cube, o, dir, rx)
    /\ \E h \in {SlabHit(s)} :
           \/ ~h.is_intersecting
           \/ /\ IsFinite(ldm)
              /\ \E tm \in {DistMag(cube, o, dir, rx, h.distance)} :
                     ~Near(h.distance, light_distance, PairMag(tm, ldm))
\* the object blocks the light for certain
ShadowBlocksExact(cube, o, dir, rx, s, light_distance, ldm) ==
    /\ ShadowBlocks(SlabHit(s), light_distance)
    /\ ShadowObjectExact(cube, o, dir, rx, s, light_distance, ldm)
\* the result of the loop is certain: an object blocks for certain, or the
\* tests of all objects are certain
ShadowScanExact(objs, o, dir, rx, light_distance, ldm) ==
    \/ \E cube \in {objs[k] : k \in 1..Len(objs)} : \E s \in {CubeSlabs(cube, o, dir)} :
           ShadowBlocksExact(cube, o, dir, rx, s, light_distance, ldm)
    \/ \A cube \in {objs[k] : k \in 1..Len(objs)} : \E s \in {CubeSlabs(cube, o, dir)} :
           ShadowObjectExact(cube, o, dir, rx, s, light_distance, ldm)
\* the sign of light_dir[k] is certain: the light and the point are exact
\* in coordinate k, or further apart in it than their roundings
LightSideExact(intersect, light_dir, k) ==
    \/ LightCoordExact(intersect, light_dir, k)
    \/ ~Near(FDiv(light_dir[k] + intersect.point[k], intersect.point[4]),
             FDiv(intersect.point[k], intersect.point[4]),
             FFin(2 * (LightMag(intersect, light_dir, k) + PointErr(intersect, k))))
\* the side the shadow origin is offset to (main.rs:64) is certain
OffsetSideExact(intersect, light_dir) ==
    \A k \in 1..3 : intersect.normal[k] = 0 \/ LightSideExact(intersect, light_dir, k)
CastShadowExactAlong(intersect, light_dir, objs) ==
    /\ OffsetSideExact(intersect, light_dir)
    /\ \E o \in {OffsetOrigin(intersect, light_dir)},
          rx \in {ShadowRayExact(intersect, light_dir)},
          ldm \in {LightDistMag(intersect, light_dir)},
          light_distance \in {FDiv(1, intersect.point[4])} :
           ShadowScanExact(objs, o, light_dir, rx, light_distance, ldm)
\* cast_shadow(intersect, light, objects) is certain to be what the f32 code
\* returns
CastShadowExact(intersect, l, objs) ==
    \E light_dir \in {LightDir(l, intersect.point)} :
        CastShadowExactAlong(intersect, light_dir, objs)

----------------------------------------------------------------------------
(* cast_ray (src/main.rs:118-219) *)

ScanKeeps_LastWins(i, zbuffer) == i.is_intersecting /\ ~FLt(zbuffer, i.distance)

\* i.is_intersecting && i.distance < zbuffer
ScanKeeps(i, zbuffer) == i.is_intersecting /\ FLt(i.distance, zbuffer)

\* i.distance < zbuffer is certain although i is as far as the hit kept so
\* far, or nearly: the ray and both cubes are exact, or both distances are
\* the same quotient, that of one plane both faces lie in
TieExact(rx, intersect, i) ==
    /\ intersect.exact.plane /\ i.exact.plane
    /\ \/ AllExact(rx)
       \/ /\ FEq(i.distance, intersect.distance)
          /\ intersect.exact.normal /\ i.exact.normal
          /\ \A k \in 1..3 : (intersect.normal[k] = 0) <=> (i.normal[k] = 0)
\* the size that bounds the roundings of the two distances compared
ScanMag(intersect, zbuffer, i) == PairMag(intersect.exact.tm, i.exact.tm)
\* i.distance < zbuffer (main.rs:135) may come out either way in f32
ScanTied(rx, intersect, zbuffer, i) ==
    /\ i.is_intersecting /\ intersect.is_intersecting
    /\ Near(i.distance, zbuffer, ScanMag(intersect, zbuffer, i))
    /\ ~TieExact(rx, intersect, i)
ScanKept(kept, tied) == [kept EXCEPT !.exact.nearest = @ /\ ~tied]

\* the variables of the linear scan (main.rs:130-131) and sure: the hit
\* tests so far are certain
ScanState(intersect, zbuffer, sure) == [intersect |-> intersect, zbuffer |-> zbuffer, sure |-> sure]
\* one turn of the loop (main.rs:134-138) on the intersection i of an object
ScanNext(rx, st, i) ==
    IF ScanKeeps(i, st.zbuffer)
    THEN ScanState(ScanKept(i, ScanTied(rx, st.intersect, st.zbuffer, i)),
                   i.distance, st.sure /\ i.exact.hit)
    ELSE ScanState(ScanKept(st.intersect, ScanTied(rx, st.intersect, st.zbuffer, i)),
                   st.zbuffer, st.sure /\ i.exact.hit)
\* the turns lo..hi of the loop in their order, from the state st; the range
\* is halved to keep the evaluation shallow
RECURSIVE Scan(_, _, _, _, _, _, _)
Scan(objs, lo, hi, o, dir, rx, st) ==
    IF lo > hi THEN st
    ELSE IF lo = hi
    THEN The({ScanNext(rx, st, i) :
                 i \in {The({CubeRayIntersectAs(cube, o, dir, rx) : cube \in {objs[lo]}})}})
    ELSE The({Scan(objs, mid + 1, hi, o, dir, rx, half) :
                 mid \in {(lo + hi) \div 2},
                 half \in {Scan(objs, lo, (lo + hi) \div 2, o, dir, rx, st)}})
\* for object in objects { .. } (main.rs:133-139)
NearestHit(objs, o, dir, rx) ==
    The({[st.intersect EXCEPT !.exact.hit = st.sure] :
            st \in {Scan(objs, 1, Len(objs), o, dir, rx, ScanState(IntersectEmpty, PosInf, TRUE))}})

Cross(a, b) ==
    <<a[2] * b[3] - a[3] * b[2], a[3] * b[1] - a[1] * b[3], a[1] * b[2] - a[2] * b[1]>>
\* Vector3::new(normal.y, -normal.x, 0.0).normalized(); the zero vector
\* stays zero
Tangent(n) == ReduceD(<<n[2], -n[1], 0>>)
TransformNormal(n, tn, tangent, bitangent) ==
    ReduceD(<<tn[1] * tangent[1] + tn[2] * bitangent[1] + tn[3] * n[1],
              tn[1] * tangent[2] + tn[2] * bitangent[2] + tn[3] * n[2],
              tn[1] * tangent[3] + tn[2] * bitangent[3] + tn[3] * n[3]>>)
\* the tangent-space normal taken to world space (main.rs:156-165)
NormalFromMap(n, tn) == TransformNormal(n, tn, Tangent(n), Cross(n, Tangent(n)))

IsSet(id) == id # NoneId

Unresolved_UseDefault(tm, id) == FALSE

\* get_texture(id).unwrap() panics (main.rs:150, 174)
Unresolved(tm, id) == IsSet(id) /\ ~GetTexture(tm, id).some

\* (u * width as f32) as u32 is certain: u is exact, or u * width is
\* further than the rounding of u, of size m, from every whole number from
\* 1 on, which a rounding could take it across
IndexExact(u, width, exact, m) ==
    \/ exact
    \/ \A j \in 1..width :
           ~Near(FDiv(u.n * width, u.d), FFin(j), FDiv(width * (m.n + m.d), m.d))
\* the pixel indices of the lookup of id are certain
LookupExact(i, tm, id) ==
    \/ ~IsSet(id)
    \/ /\ IndexExact(i.u, GetTexture(tm, id).width, i.exact.u, i.exact.um)
       /\ IndexExact(i.v, GetTexture(tm, id).height, i.exact.v, i.exact.vm)

\* the shading normal (main.rs:148-166)
ShadingNormal(i, tm) ==
    IF IsSet(i.material.normal_map_id)
    THEN NormalFromMap(i.normal,
             GetNormalFromMap(i.material.normal_map_id,
                 PixelIndex(i.u, GetTexture(tm, i.material.normal_map_id).width),
                 PixelIndex(i.v, GetTexture(tm, i.material.normal_map_id).height)))
    ELSE i.normal

\* diffuse_color (main.rs:173-183)
DiffuseColor(i, tm) ==
    IF IsSet(i.material.texture_id)
    THEN GetPixelColor(i.material.texture_id,
             PixelIndex(i.u, GetTexture(tm, i.material.texture_id).width),
             PixelIndex(i.v, GetTexture(tm, i.material.texture_id).height))
    ELSE [kind |-> "flat", material |-> i.material.name]

\* phong_color (main.rs:185-193), kept as what it is computed from
PhongColor(i, normal, shadow_intensity, diffuse_color) ==
    [kind |-> "phong", material |-> i.material.name, diffuse_color |-> diffuse_color,
     normal |-> normal, shadow_intensity |-> shadow_intensity]

\* the final blend (main.rs:218)
BlendColor(f) ==
    [kind |-> "blend", phong |-> f.phong, reflect_color |-> f.reflect_color,
     refract_color |-> f.refract_color]

DepthExceeded_OffByOne(depth) == depth > 4

\* depth > 3 (main.rs:126)
DepthExceeded(depth) == depth > 3

MissColor_Black(dir, tm) == ColorZero

\* the colour returned when nothing is hit (main.rs:141-143)
MissColor(dir, tm) == SkyboxColor(dir, tm)

\* the frames of the model never exceed MaxStack
MaxStack == 6
DepthLimit == MaxStack + 4

\* one invocation of cast_ray, about to run; origin_exact tells which
\* coordinates of the origin are exact in f32, origin_mag the sizes of the
\* roundings they were computed with
Frame(origin, origin_exact, origin_mag, dir, dir_mag, depth) ==
    [origin |-> origin, origin_exact |-> origin_exact, origin_mag |-> origin_mag,
     dir |-> dir, dir_mag |-> dir_mag, depth |-> depth,
     pc |-> "enter",
     intersect |-> IntersectEmpty, normal |-> VZero, phong |-> ColorZero,
     reflect_color |-> ColorZero, refract_color |-> ColorZero]

Top == stack[Len(stack)]
\* the scan of the innermost invocation (main.rs:130-139)
HitOf(f) ==
    The({NearestHit(objects, f.origin, f.dir, rx) :
            rx \in {UnitRayExact(f.origin, f.origin_exact, f.origin_mag, f.dir, f.dir_mag)}})
\* 1 when the f32 code may decide otherwise than is computed here
Inexact(certain) == IF certain THEN 0 ELSE 1
ScanExact(i) == i.exact.hit /\ i.exact.nearest
Running == status = "running" /\ stack # <<>>
AtPc(pc) == Running /\ Top.pc = pc

\* the caller takes the returned colour (main.rs:199, 208, 212)
Resume(caller, v) ==
    IF caller.pc = "reflect_wait"
    THEN [caller EXCEPT !.reflect_color = v, !.pc = "refract"]
    ELSE [caller EXCEPT !.refract_color = v, !.pc = "compose"]

\* the innermost invocation returns v
Return(v) ==
    IF Len(stack) = 1
    THEN /\ stack' = <<>>
         /\ status' = "done"
         /\ result' = v
    ELSE /\ stack' = Append(SubSeq(stack, 1, Len(stack) - 2), Resume(stack[Len(stack) - 1], v))
         /\ UNCHANGED <<status, result>>

\* the sizes of the roundings of a normalized direction (squares, their
\* sum, a root, a reciprocal, a product)
NormalizedMag == <<5, 5, 5>>
\* those of reflect(dir, normal).normalized(): about the normal of a face it
\* changes a sign; about another normal nothing is counted on
ReflectDirMag(dir_mag, normal) ==
    IF IsAxis(normal) THEN <<dir_mag[1] + 5, dir_mag[2] + 5, dir_mag[3] + 5>>
    ELSE <<SizeCap, SizeCap, SizeCap>>
\* those of the refracted direction dir at a face (main.rs:88-94): across
\* the normal a product by eta; along it what is left is sqrt(k), whose
\* roundings are those of k by 1 / (2 sqrt(k)), and 1 / k is
\* |dir|^2 / dir[k]^2
AlongMag(dir, dir_mag, k) ==
    IF dir[k] = 0 \/ dir_mag[k] >= 4096 \/ Dot(dir, dir) \div (dir[k] * dir[k]) >= 1024
    THEN SizeCap
    ELSE (6 * dir_mag[k] + 20) * (Dot(dir, dir) \div (dir[k] * dir[k]) + 1)
RefractDirMagAxis(dir, dir_mag, normal, k) ==
    IF normal[k] = 0 THEN dir_mag[k] + 2 ELSE AlongMag(dir, dir_mag, k)
RefractDirMag(dir, dir_mag, normal) ==
    IF IsAxis(normal)
    THEN <<RefractDirMagAxis(dir, dir_mag, normal, 1), RefractDirMagAxis(dir, dir_mag, normal, 2),
           RefractDirMagAxis(dir, dir_mag, normal, 3)>>
    ELSE <<SizeCap, SizeCap, SizeCap>>

CallAlong_SameDepth(pcwait, dir, dir_mag) ==
    /\ Len(stack) < MaxStack
    /\ stack' = Append([stack EXCEPT ![Len(stack)].pc = pcwait],
                       Frame(OffsetOrigin(Top.intersect, dir), OffsetExact(Top.intersect),
                             OffsetMag(Top.intersect), dir, dir_mag,
                             Top.depth))
    /\ stats' = [stats EXCEPT !.invocations[Top.depth] = @ + 1]
    /\ UNCHANGED <<status, result>>

\* the recursive call cast_ray(offset_origin(intersect, dir), dir, .., depth + 1)
CallAlong(pcwait, dir, dir_mag) ==
    /\ Len(stack) < MaxStack
    /\ stack' = Append([stack EXCEPT ![Len(stack)].pc = pcwait],
                       Frame(OffsetOrigin(Top.intersect, dir), OffsetExact(Top.intersect),
                             OffsetMag(Top.intersect), dir, dir_mag,
                             Top.depth + 1))
    /\ stats' = [stats EXCEPT !.invocations[Top.depth + 1] = @ + 1]
    /\ UNCHANGED <<status, result>>

\* main.rs:126-128
CastRayDepthCap ==
    /\ AtPc("enter")
    /\ DepthExceeded(Top.depth)
    /\ Return(SkyboxColor(Top.dir, texture_manager))
    /\ UNCHANGED <<sceneVars, stats, fnVars, main>>

\* main.rs:130-143
CastRayMiss ==
    /\ AtPc("enter")
    /\ ~DepthExceeded(Top.depth)
    /\ \E i \in {HitOf(Top)} :
           /\ ~i.is_intersecting
           /\ stats' = [stats EXCEPT !.scans = @ + 1, !.inexact = @ + Inexact(ScanExact(i))]
    /\ Return(MissColor(Top.dir, texture_manager))
    /\ UNCHANGED <<sceneVars, fnVars, main>>

Panic == status' = "panicked" /\ UNCHANGED <<stack, result>>

\* main.rs:150: the normal map of the hit material does not resolve
PanicNormalMapOf(i) ==
    /\ i.is_intersecting
    /\ Unresolved(texture_manager, i.material.normal_map_id)
    /\ Panic
    /\ stats' = [stats EXCEPT !.scans = @ + 1, !.inexact = @ + Inexact(ScanExact(i))]
CastRayPanicNormalMap ==
    /\ AtPc("enter")
    /\ ~DepthExceeded(Top.depth)
    /\ \E i \in {HitOf(Top)} : PanicNormalMapOf(i)
    /\ UNCHANGED <<sceneVars, fnVars, main>>

LookupCount(id) == IF IsSet(id) THEN 1 ELSE 0

\* main.rs:174: the texture of the hit material does not resolve
PanicTextureOf(i) ==
    /\ i.is_intersecting
    /\ ~Unresolved(texture_manager, i.material.normal_map_id)
    /\ Unresolved(texture_manager, i.material.texture_id)
    /\ Panic
    /\ stats' = [stats EXCEPT !.scans = @ + 1, !.shadows = @ + 1,
                              !.lookups = @ + LookupCount(i.material.normal_map_id),
                              !.inexact = @ + Inexact(ScanExact(i) /\ i.exact.normal)]
CastRayPanicTexture ==
    /\ AtPc("enter")
    /\ ~DepthExceeded(Top.depth)
    /\ \E i \in {HitOf(Top)} : PanicTextureOf(i)
    /\ UNCHANGED <<sceneVars, fnVars, main>>

\* main.rs:145-193: the local shading of the hit
ShadeWith(i, normal) ==
    stack' = [stack EXCEPT ![Len(stack)] =
                 [@ EXCEPT !.pc = "reflect", !.intersect = i, !.normal = normal,
                           !.phong = PhongColor(i, normal, CastShadow(i, light, objects),
                                                DiffuseColor(i, texture_manager))]]
\* the hit, its normal, its shadow and its pixel indices are certain
ShadeExact(i) ==
    /\ ScanExact(i)
    /\ i.exact.normal
    /\ LookupExact(i, texture_manager, i.material.normal_map_id)
    /\ LookupExact(i, texture_manager, i.material.texture_id)
    /\ CastShadowExact(i, light, objects)
\* 1 for a material that both reflects and transmits
BothCount(material) == IF material.albedo[3] > 0 /\ material.albedo[4] > 0 THEN 1 ELSE 0
ShadeHit(i) ==
    /\ i.is_intersecting
    /\ ~Unresolved(texture_manager, i.material.normal_map_id)
    /\ ~Unresolved(texture_manager, i.material.texture_id)
    /\ \E normal \in {ShadingNormal(i, texture_manager)} : ShadeWith(i, normal)
    /\ stats' = [stats EXCEPT !.scans = @ + 1, !.shadows = @ + 1,
                              !.lookups = @ + LookupCount(i.material.normal_map_id)
                                            + LookupCount(i.material.texture_id),
                              !.shaded = @ + 1,
                              !.branching = @ + BothCount(i.material),
                              !.inexact = @ + Inexact(ShadeExact(i))]
    /\ UNCHANGED <<status, result>>
CastRayHit ==
    /\ AtPc("enter")
    /\ ~DepthExceeded(Top.depth)
    /\ \E i \in {HitOf(Top)} : ShadeHit(i)
    /\ UNCHANGED <<sceneVars, fnVars, main>>

Reflectivity(f) == f.intersect.material.albedo[3]

Transparency_UnlessTotalReflection(f) ==
    IF Refract(f.dir, f.normal, f.intersect.material.refractive_index).some
    THEN f.intersect.material.albedo[4] ELSE 0

Transparency(f) == f.intersect.material.albedo[4]

\* main.rs:196-199
CastRayReflect ==
    /\ AtPc("reflect")
    /\ Reflectivity(Top) > 0
    /\ \E dir \in {Reflect(Top.dir, Top.normal)} :
           CallAlong("reflect_wait", dir, ReflectDirMag(Top.dir_mag, Top.normal))
    /\ UNCHANGED <<sceneVars, fnVars, main>>

\* main.rs:200-202
CastRayNoReflect ==
    /\ AtPc("reflect")
    /\ ~(Reflectivity(Top) > 0)
    /\ stack' = [stack EXCEPT ![Len(stack)] =
                    [@ EXCEPT !.pc = "refract", !.reflect_color = ColorZero]]
    /\ UNCHANGED <<sceneVars, fnVars, main, status, result, stats>>

RefractOf(f) == Refract(f.dir, f.normal, f.intersect.material.refractive_index)

\* main.rs:205-208
CastRayRefract ==
    /\ AtPc("refract")
    /\ Transparency(Top) > 0
    /\ \E r \in {RefractOf(Top)} :
           r.some /\ CallAlong("refract_wait", r.dir, RefractDirMag(r.dir, Top.dir_mag, Top.normal))
    /\ UNCHANGED <<sceneVars, fnVars, main>>

\* main.rs:209-213: total internal reflection
CastRayRefractFallback ==
    /\ AtPc("refract")
    /\ Transparency(Top) > 0
    /\ ~RefractOf(Top).some
    /\ \E dir \in {Reflect(Top.dir, Top.normal)} :
           CallAlong("refract_wait", dir, ReflectDirMag(Top.dir_mag, Top.normal))
    /\ UNCHANGED <<sceneVars, fnVars, main>>

\* main.rs:214-216
CastRayNoRefract ==
    /\ AtPc("refract")
    /\ ~(Transparency(Top) > 0)
    /\ stack' = [stack EXCEPT ![Len(stack)] =
                    [@ EXCEPT !.pc = "compose", !.refract_color = ColorZero]]
    /\ UNCHANGED <<sceneVars, fnVars, main, status, result, stats>>

\* main.rs:218
CastRayBlend ==
    /\ AtPc("compose")
    /\ Return(BlendColor(Top))
    /\ UNCHANGED <<sceneVars, fnVars, main, stats>>

----------------------------------------------------------------------------
(* scenes and rays: Spec *)

HV(x, y, z) == <<x * Half, y * Half, z * Half>>
Albedo(diffuse, specular, reflectivity, transparency) ==
    <<diffuse, specular, reflectivity, transparency>>

\* the materials of main.rs:280-354
MatWood == Material("wood", Albedo(80, 10, 0, 0), <<0, 1>>, "assets/wood.jpg", NoneId)
MatLeaves == Material("leaves", Albedo(90, 5, 0, 0), <<0, 1>>, "assets/leaves.jpg", NoneId)
MatWater == Material("water", Albedo(20, 10, 70, 0), <<0, 1>>, "assets/water.jpg", NoneId)
MatStone == Material("stone", Albedo(90, 5, 0, 0), <<0, 1>>, "assets/stone.jpg", NoneId)
MatDirt == Material("dirt", Albedo(90, 5, 0, 0), <<0, 1>>, "assets/dirt.jpg", NoneId)
MatGlass == Material("glass", Albedo(0, 10, 10, 80), GlassIndex, "assets/glass.jpg", NoneId)
MatLight == Material("light", Albedo(100, 0, 0, 0), <<0, 1>>, NoneId, NoneId)
\* further materials: a perfect mirror, a textured and a normal-mapped
\* material whose files are not loaded, a normal-mapped one whose file is
MatMirror == Material("mirror", Albedo(0, 0, 100, 0), <<0, 1>>, NoneId, NoneId)
MatGhost == Material("ghost", Albedo(90, 5, 0, 0), <<0, 1>>, "assets/missing.jpg", NoneId)
MatBump == Material("bump", Albedo(60, 10, 30, 0), <<0, 1>>, NoneId, "assets/normal.jpg")
MatBumpGhost == Material("bumpghost", Albedo(90, 5, 0, 0), <<0, 1>>, NoneId, "assets/nonormal.jpg")

\* the textures main.rs:267-272 loads
LoadedTextures ==
    {"assets/wood.jpg", "assets/leaves.jpg", "assets/water.jpg", "assets/stone.jpg",
     "assets/dirt.jpg", "assets/glass.jpg"}
\* the light of main.rs:419-423
MainLight == [position |-> HV(2, -2, 10)]

AxisDirs == AxisNormals

\* main.rs:357-409
SkyblockObjects ==
<<
    Cube(HV(0, -3, 0), OneUnit, MatDirt),
    Cube(HV(2, -3, 0), OneUnit, MatDirt),
    Cube(HV(-2, -3, 0), OneUnit, MatDirt),
    Cube(HV(0, -3, 2), OneUnit, MatDirt),
    Cube(HV(0, -3, -2), OneUnit, MatDirt),
    Cube(HV(0, -1, 0), OneUnit, MatDirt),
    Cube(HV(2, -1, 0), OneUnit, MatDirt),
    Cube(HV(-2, -1, 0), OneUnit, MatDirt),
    Cube(HV(0, -1, 2), OneUnit, MatDirt),
    Cube(HV(0, -1, -2), OneUnit, MatDirt),
    Cube(HV(0, 1, 0), OneUnit, MatDirt),
    Cube(HV(2, 1, 0), OneUnit, MatDirt),
    Cube(HV(-2, 1, 0), OneUnit, MatDirt),
    Cube(HV(0, 1, 2), OneUnit, MatDirt),
    Cube(HV(0, 1, -2), OneUnit, MatDirt),
    Cube(HV(0, 3, 0), OneUnit, MatWood),
    Cube(HV(0, 5, 0), OneUnit, MatWood),
    Cube(HV(0, 7, 0), OneUnit, MatLeaves),
    Cube(HV(2, 7, 0), OneUnit, MatLeaves),
    Cube(HV(-2, 7, 0), OneUnit, MatLeaves),
    Cube(HV(0, 7, 2), OneUnit, MatLeaves),
    Cube(HV(0, 7, -2), OneUnit, MatLeaves),
    Cube(HV(0, 9, 0), OneUnit, MatLeaves),
    Cube(HV(3, 2, 3), OneUnit, MatWood),
    Cube(HV(-3, 2, -3), OneUnit, MatStone),
    Cube(HV(-3, 4, -3), OneUnit, MatStone),
    Cube(HV(4, 2, -2), OneUnit, MatGlass),
    Cube(HV(4, 4, -2), OneUnit, MatGlass),
    Cube(HV(4, 2, 0), OneUnit, MatGlass),
    Cube(HV(-4, 2, 2), OneUnit, MatWater),
    Cube(HV(-4, 2, 0), OneUnit, MatWater),
    Cube(HV(0, 12, 0), Half, MatLight) >>

Scene(objs, l, tm, origins, dirs) ==
    [objects |-> objs, light |-> l, texture_manager |-> tm, origins |-> origins, dirs |-> dirs]

\* the rays of the scenes start off the planes and the edges of the cubes
\* where a comparison of the f32 code would be decided by its rounding
\* (ExactArithmetic)
SceneSkyblock ==
    Scene(SkyblockObjects, MainLight, LoadedTextures,
          ({HV(x, y, 16) : x \in {-4, -3, 0, 3, 4}, y \in {2, 3, 4}}
              \ {HV(-4, 4, 16), HV(3, 4, 16)})
            \cup {<<-17500, 20000, 80000>>, <<17500, 20000, 80000>>}
            \cup {HV(x, 16, z) : x \in {-4, 0, 4}, z \in {-2, 0, 2}}
            \cup {HV(16, 4, 0), <<80000, 7500, -12500>>, <<80000, 20000, -12500>>,
                  <<80000, 7500, 0>>}
            \cup {HV(-16, 2, z) : z \in {0, 2}},
          AxisDirs)
SceneEmpty ==
    Scene(<<>>, MainLight, {}, {HV(0, 0, 0), HV(0, 4, 16)}, AxisDirs \cup {<<3, -2, 0>>, <<1, 1, 1>>})
\* two fully mirrored cubes facing each other, and a third above
SceneMirrors ==
    Scene(<<Cube(HV(-4, 0, 0), OneUnit, MatMirror), Cube(HV(4, 0, 0), OneUnit, MatMirror),
            Cube(HV(0, 6, 0), OneUnit, MatMirror)>>,
          MainLight, {SkyboxId},
          {HV(0, 0, 0), HV(0, 1, 0), HV(4, 3, 0), HV(-10, 0, 0), HV(0, 2, 1)}, AxisDirs)
\* cubes that are hit at exactly the same distance
SceneTies ==
    Scene(<<Cube(HV(0, 0, 0), OneUnit, MatLight), Cube(HV(0, 0, 0), OneUnit, MatMirror),
            Cube(HV(0, 2, 0), OneUnit, MatDirt), Cube(HV(0, 2, 0), OneUnit, MatLight),
            Cube(HV(0, 0, -6), Half, MatWater)>>,
          MainLight, LoadedTextures,
          {HV(0, 0, 8), HV(8, 0, 0), HV(0, 8, 0), HV(0, 2, 8), HV(-8, 2, 0), HV(0, -8, 0),
           HV(0, 0, -16), HV(1, 1, 8)}, AxisDirs)
\* a glass cube over a dirt floor
SceneGlass ==
    Scene(<<Cube(HV(0, 0, 0), OneUnit, MatGlass), Cube(HV(0, -4, 0), OneUnit, MatDirt)>>,
          MainLight, LoadedTextures,
          {<<-17000, 15000, 0>>, HV(0, 8, 0), HV(8, 0, 0), HV(0, 0, 8), HV(0, 0, 0)},
          AxisDirs \cup {<<3, -2, 0>>})
\* materials whose texture or normal map is not loaded
SceneMissing ==
    Scene(<<Cube(HV(0, 0, 0), OneUnit, MatGhost), Cube(HV(4, 0, 0), OneUnit, MatBump),
            Cube(HV(-4, 0, 0), OneUnit, MatBumpGhost), Cube(HV(-8, 0, 0), OneUnit, MatMirror),
            Cube(HV(4, 4, 0), OneUnit, MatBump)>>,
          [position |-> HV(4, 16, 0)], {"assets/normal.jpg"},
          {HV(2, 0, 0), HV(-2, 0, 0), HV(4, 8, 0), HV(0, 8, 0), HV(-4, 0, 8), HV(-6, 0, 0),
           HV(4, 0, 8), HV(4, 2, 0)}, AxisDirs)

\* a row of nine glass cubes that touch, the ray starting inside the middle one
SceneGlassRow ==
    Scene([k \in 1..9 |-> Cube(HV(2 * (k - 5), 0, 0), OneUnit, MatGlass)],
          MainLight, LoadedTextures, {HV(0, 0, 0)}, AxisDirs)

Scenes ==
    {SceneSkyblock, SceneEmpty, SceneMirrors, SceneTies, SceneGlass, SceneMissing,
     SceneGlassRow}
StartDepths == {0, 1, 2, 3}

NoStats ==
    [invocations |-> [d \in 0..DepthLimit |-> 0], scans |-> 0, shadows |-> 0, lookups |-> 0,
     shaded |-> 0, branching |-> 0, start_depth |-> 0, inexact |-> 0]

\* a top-level call cast_ray(origin, dir, objects, light, texture_manager, depth)
InitCall(s, o, dir, depth) ==
    /\ objects = s.objects
    /\ light = s.light
    /\ texture_manager = s.texture_manager
    /\ stack = <<Frame(Pt(o[1], o[2], o[3]), RayExact(Pt(o[1], o[2], o[3]), dir).origin,
                       <<0, 0, 0>>, dir, NormalizedMag,
                       depth)>>
    /\ status = "running"
    /\ result = ColorZero
    /\ stats = [NoStats EXCEPT !.invocations[depth] = 1, !.start_depth = depth]

Init ==
    /\ IdleFn
    /\ IdleMain
    /\ \E s \in Scenes : \E o \in s.origins : \E dir \in s.dirs : \E depth \in StartDepths :
           InitCall(s, o, dir, depth)

Next ==
    \/ CastRayDepthCap
    \/ CastRayMiss
    \/ CastRayPanicNormalMap
    \/ CastRayPanicTexture
    \/ CastRayHit
    \/ CastRayReflect
    \/ CastRayNoReflect
    \/ CastRayRefract
    \/ CastRayRefractFallback
    \/ CastRayNoRefract
    \/ CastRayBlend

Spec == Init /\ [][Next]_vars

\* the program keeps running until cast_ray returns or panics
LiveSpec == Spec /\ WF_vars(Next)

\* refract(..) of the invocation is what the f32 code computes: the root
\* is rational, and k < 0.0 is not decided by the rounding
RefractExact(f) ==
    \E r \in {RefractOf(f)} : r.exact
\* The arithmetic has been exact wherever it matters: every refracted
\* direction computed so far is rational, and no comparison whose two sides
\* are equal here had a rounded side in the f32 code.  The rays of the
\* scenes are chosen for this to hold.
ExactArithmetic ==
    /\ status # "idle" => stats.inexact = 0
    /\ \A k \in 1..Len(stack) :
           (stack[k].pc \in {"refract", "refract_wait", "compose"}
               /\ Transparency(stack[k]) > 0) => RefractExact(stack[k])

----------------------------------------------------------------------------
(* cast_ray: properties *)

Terminated == status \in {"done", "panicked"}
\* the invocation has found its hit and shaded it
Shaded(f) == f.pc # "enter"

\* in this step the innermost invocation returns v to its caller
TopReturns(v) ==
    IF Len(stack) = 1
    THEN stack' = <<>> /\ status' = "done" /\ result' = v
    ELSE /\ Len(stack') = Len(stack) - 1
         /\ \A k \in 1..(Len(stack) - 2) : stack'[k] = stack[k]
         /\ status' = "running"
         /\ IF stack[Len(stack) - 1].pc = "reflect_wait"
            THEN stack'[Len(stack')].reflect_color = v
            ELSE stack'[Len(stack')].refract_color = v

C1DepthBound == \A k \in 1..Len(stack) : stack[k].depth <= 4
C1CapStep ==
    (AtPc("enter") /\ Top.depth > 3)
        => (TopReturns(SkyboxColor(Top.dir, texture_manager)) /\ stats' = stats)

\* C1: every cast_ray call terminates; an invocation with depth > 3 returns
\* the skybox colour at once, without a scan and without a recursive call,
\* and no invocation runs with a depth above 4
C1_DepthCapTerminates == []C1DepthBound /\ [][C1CapStep]_vars /\ <>Terminated

\* between the two mirrors: the invocation of depth 4 has returned the
\* skybox colour to the invocation of depth 3
C1_Witness ==
    /\ objects = SceneMirrors.objects
    /\ Running
    /\ Len(stack) = 4
    /\ stack[1].depth = 0
    /\ Top.depth = 3
    /\ Top.pc = "refract"
    /\ Top.reflect_color.kind = "skybox"
    /\ stats.invocations[4] = 1

C2Hits(f) ==
    [k \in 1..Len(objects) |->
        CubeRayIntersectAs(objects[k], f.origin, f.dir, UnitRayExact(f.origin, f.origin_exact, f.origin_mag, f.dir, f.dir_mag))]
\* k is a hit, no hit is nearer, and every hit before k is farther
C2First(h, k) ==
    /\ h[k].is_intersecting
    /\ \A j \in DOMAIN h : h[j].is_intersecting => ~FLt(h[j].distance, h[k].distance)
    /\ \A j \in 1..(k - 1) : h[j].is_intersecting => FLt(h[k].distance, h[j].distance)
C2Selected(f, h) == \E k \in DOMAIN h : C2First(h, k) /\ f.intersect = h[k]

\* C2: the intersection cast_ray shades is the hit of smallest distance, and
\* among hits at exactly that distance the first of the object list; an
\* object that is not hit never replaces it
C2_NearestFirstWins ==
    \A n \in 1..Len(stack) : Shaded(stack[n]) => C2Selected(stack[n], C2Hits(stack[n]))

C2Tie(f, h) ==
    \E j, k, m \in DOMAIN h :
        /\ j < k /\ k < m
        /\ h[j].is_intersecting /\ h[k].is_intersecting /\ ~h[m].is_intersecting
        /\ FEq(h[j].distance, h[k].distance)
        /\ h[j] # h[k]
        /\ f.intersect = h[j]
        /\ f.intersect.exact.nearest
\* two objects are hit at the same smallest distance, in f32 as well, a later
\* one is missed, and the first has been shaded
C2_Witness == \E n \in 1..Len(stack) : Shaded(stack[n]) /\ C2Tie(stack[n], C2Hits(stack[n]))

C3Miss ==
    /\ AtPc("enter")
    /\ \A k \in 1..Len(objects) :
           ~CubeRayIntersect(objects[k], Top.origin, Top.dir).is_intersecting
C3MissStep ==
    C3Miss => /\ TopReturns(SkyboxColor(Top.dir, texture_manager))
              /\ stats'.shadows = stats.shadows
              /\ stats'.lookups = stats.lookups
              /\ stats'.invocations = stats.invocations

\* C3: when no object is hit, cast_ray returns skybox_color of the ray
\* direction, with no shadow test, no lookup of a surface texture and no
\* recursive call
C3_MissReturnsSkybox == [][C3MissStep]_vars

\* the empty scene, called with depth 3, has returned the skybox colour
C3_Witness ==
    /\ status = "done"
    /\ objects = <<>>
    /\ stats.invocations[3] = 1
    /\ stats.scans = 1
    /\ stats.shadows = 0
    /\ result.kind = "skybox"

C9Shaded(f) ==
    /\ f.intersect.material.normal_map_id = NoneId => f.normal = f.intersect.normal
    /\ f.intersect.material.texture_id = NoneId
          => f.phong.diffuse_color = [kind |-> "flat", material |-> f.intersect.material.name]
    /\ f.intersect.material.normal_map_id # NoneId
          => f.intersect.material.normal_map_id \in texture_manager
    /\ f.intersect.material.texture_id # NoneId
          => f.intersect.material.texture_id \in texture_manager
C9Inv == \A n \in 1..Len(stack) : Shaded(stack[n]) => C9Shaded(stack[n])
C9Missing(i) ==
    /\ i.is_intersecting
    /\ \/ i.material.normal_map_id \notin texture_manager \cup {NoneId}
       \/ i.material.texture_id \notin texture_manager \cup {NoneId}
C9AbortStep ==
    (AtPc("enter") /\ Top.depth <= 3 /\ C9Missing(HitOf(Top)))
        => (status' = "panicked" /\ result' = result)

\* C9: a material without texture is shaded with its flat diffuse colour, one
\* without normal map with the geometric normal; when the texture or the
\* normal map of the hit material is set and not loaded, nothing is shaded:
\* the evaluation aborts
C9_UnsetFallsBackMissingAborts == []C9Inv /\ [][C9AbortStep]_vars

\* the mirror, with neither texture nor normal map, has been shaded flat,
\* and its reflected ray has hit a material whose file is missing
C9_Witness ==
    /\ status = "panicked"
    /\ Len(stack) = 2
    /\ stack[1].intersect.material.texture_id = NoneId
    /\ stack[1].intersect.material.normal_map_id = NoneId
    /\ stack[1].phong.diffuse_color.kind = "flat"
    /\ stack[1].normal = stack[1].intersect.normal

----------------------------------------------------------------------------
(* cast_ray: the recursive calls *)

\* in this step the innermost invocation calls cast_ray along dir
C11Calls(dir) ==
    /\ Len(stack') = Len(stack) + 1
    /\ stack'[Len(stack')].pc = "enter"
    /\ stack'[Len(stack')].depth = Top.depth + 1
    /\ stack'[Len(stack')].dir = dir
    /\ stack'[Len(stack')].origin = OffsetOrigin(Top.intersect, dir)
    /\ stats'.invocations[Top.depth + 1] = stats.invocations[Top.depth + 1] + 1
\* in this step it goes on without a call, with the colour zero
C11Skips(color) ==
    /\ Len(stack') = Len(stack)
    /\ stack'[Len(stack')][color] = ColorZero
    /\ stats'.invocations = stats.invocations
C11Mirror == Reflect(Top.dir, Top.normal)
C11Through == Refract(Top.dir, Top.normal, Top.intersect.material.refractive_index)
C11ReflectStep ==
    AtPc("reflect") =>
        IF Top.intersect.material.albedo[3] > 0
        THEN C11Calls(C11Mirror) ELSE C11Skips("reflect_color")
C11RefractStep ==
    AtPc("refract") =>
        IF Top.intersect.material.albedo[4] > 0
        THEN C11Calls(IF C11Through.some THEN C11Through.dir ELSE C11Mirror)
        ELSE C11Skips("refract_color")
C11ShadedDepth == \A n \in 1..Len(stack) : Shaded(stack[n]) => stack[n].depth <= 3

\* C11: a shaded hit (depth d <= 3) calls cast_ray for the reflection exactly
\* when albedo[2] > 0 and for the transparency exactly when albedo[3] > 0,
\* each with depth d + 1; when refract gives None the transparency call goes
\* along the mirror direction; with both at 0 there is no call
C11_RecursesByAlbedo == []C11ShadedDepth /\ [][C11ReflectStep /\ C11RefractStep]_vars

\* the transparency call under total internal reflection has been made
C11_Witness ==
    /\ Running
    /\ Len(stack) >= 2
    /\ Top.pc = "enter"
    /\ stack[Len(stack) - 1].pc = "refract_wait"
    /\ ~RefractOf(stack[Len(stack) - 1]).some
    /\ Top.depth = stack[Len(stack) - 1].depth + 1
    /\ Top.dir = Reflect(stack[Len(stack) - 1].dir, stack[Len(stack) - 1].normal)

----------------------------------------------------------------------------

(* cast_ray: the number of invocations *)

RECURSIVE Pow2(_)
Pow2(d) == IF d = 0 THEN 1 ELSE 2 * Pow2(d - 1)
RECURSIVE C12Sum(_, _)
C12Sum(f, d) == IF d < 0 THEN 0 ELSE f[d] + C12Sum(f, d - 1)
\* the cast_ray invocations so far
C12Total == C12Sum(stats.invocations, DepthLimit)
\* the top-level call was made with depth 0
C12FromZero == status # "idle" /\ stats.start_depth = 0

C12Bounds ==
    C12FromZero =>
        /\ stats.invocations[0] = 1
        /\ \A d \in 0..4 : stats.invocations[d] <= Pow2(d)
        /\ \A d \in 5..DepthLimit : stats.invocations[d] = 0
        /\ C12Total <= 31
        /\ stats.scans <= 15
C12Chain ==
    (C12FromZero /\ stats.branching = 0) =>
        /\ C12Total <= 5
        /\ \A d \in 0..4 : stats.invocations[d] <= 1
\* all 15 invocations of depth 0..3 have hit a material that reflects and transmits
C12AllBranch == stats.shaded = 15 /\ stats.branching = 15
C12Full ==
    C12FromZero =>
        /\ C12Total = 31 => C12AllBranch
        /\ (status = "done" /\ C12AllBranch) => C12Total = 31
\* every material hit so far reflects and transmits
C12OnlyBoth == stats.shaded > 0 /\ stats.branching = stats.shaded

\* C12 as stated: at most 2^d invocations at depth d, 31 in all, 15 scans; 31
\* whenever every hit material reflects and transmits; at most 5 when none does
C12_FullTreeWheneverBoth ==
    /\ C12Bounds
    /\ C12Chain
    /\ (C12FromZero /\ status = "done" /\ C12OnlyBoth) => C12Total = 31

\* C12, amended: at most 2^d invocations at depth d in 0..4, 31 in all, 15 of
\* them scanning; 31 exactly when each of the 15 invocations of depth 0..3
\* hits a material that reflects and transmits (a ray that misses ends its
\* branch); at most 5, one per depth, when no hit material does both
C12_InvocationBounds == C12Bounds /\ C12Chain /\ C12Full

\* the full tree: 31 invocations, 15 scans
C12_Witness ==
    /\ status = "done"
    /\ C12FromZero
    /\ C12Total = 31
    /\ stats.scans = 15
    /\ stats.invocations[4] = 16
\* a chain of five invocations without a branching material
C12_WitnessChain ==
    /\ status = "done"
    /\ C12FromZero
    /\ stats.branching = 0
    /\ C12Total = 5

----------------------------------------------------------------------------

(* cast_ray: the pixel indices of the texture lookup *)

C13Textured(f) == Shaded(f) /\ f.intersect.material.texture_id # NoneId
C13InRange(c, texture) ==
    /\ 0 <= c.tx /\ c.tx < texture.width
    /\ 0 <= c.ty /\ c.ty < texture.height

\* C13: the indices (tx, ty) cast_ray passes to get_pixel_color lie within the
\* texture, 0 <= tx < width and 0 <= ty < height, also for a hit on the edge
\* of a face, where u or v is 1
C13_TexelInRange ==
    \A n \in 1..Len(stack) :
        C13Textured(stack[n]) =>
            C13InRange(stack[n].phong.diffuse_color,
                       GetTexture(texture_manager, stack[n].intersect.material.texture_id))

\* a hit on the edge of a face of a textured cube: v is 1, in f32 as well,
\* and ty is the height
C13_Witness ==
    \E n \in 1..Len(stack) :
        /\ C13Textured(stack[n])
        /\ stack[n].intersect.v = FFin(1)
        /\ stack[n].intersect.exact.v
        /\ stack[n].phong.diffuse_color.ty =
               GetTexture(texture_manager, stack[n].intersect.material.texture_id).height

----------------------------------------------------------------------------

(* cast_shadow as a pure function: SpecShadow *)

\* the object lists have at most MaxOccluders cubes
MaxOccluders == 2

\* the floor whose top face the shaded points lie on
ShadowFloor == Cube(HV(0, -2, 0), OneUnit, MatFlat)
\* the floor and cubes above it, far above it, below it and beside it
ShadowCubes ==
    {ShadowFloor, Cube(HV(0, 2, 0), OneUnit, MatFlat), Cube(HV(0, 12, 0), OneUnit, MatFlat),
     Cube(HV(0, -6, 0), OneUnit, MatFlat), Cube(HV(2, 2, 0), Half, MatFlat)}
ShadowLights == {[position |-> HV(0, 8, 0)], [position |-> HV(4, 6, 0)], MainLight}
\* hits on the top face of the floor, by rays from above
ShadowIntersects ==
    {i \in {CubeRayIntersect(ShadowFloor, Pt(o[1], o[2], o[3]), dir) :
                o \in {HV(0, 2, 0), HV(-1, 2, 0), HV(0, 2, 1), HV(-1, 3, -1)},
                dir \in {<<0, -1, 0>>, <<1, -3, 0>>, <<1, -4, 1>>}} : i.is_intersecting}

Range(q) == {q[k] : k \in DOMAIN q}
\* the lists of at most MaxOccluders different cubes
ShadowLists ==
    {q \in UNION {[1..n -> ShadowCubes] : n \in 0..MaxOccluders} :
        Cardinality(Range(q)) = Len(q)}

\* the inputs on which the f32 code decides as is computed here
ShadowInputs ==
    {i \in [intersect : ShadowIntersects, light : ShadowLights, objects : ShadowLists] :
        CastShadowExact(i.intersect, i.light, i.objects)}

InitShadow ==
    /\ fn_in \in ShadowInputs
    /\ fn_out = <<>>
    /\ IdleCast
    /\ IdleMain

CallCastShadow ==
    /\ fn_out = <<>>
    /\ fn_out' = <<CastShadow(fn_in.intersect, fn_in.light, fn_in.objects)>>
    /\ UNCHANGED fn_in
    /\ UNCHANGED <<castVars, main>>

NextShadow == CallCastShadow
SpecShadow == InitShadow /\ [][NextShadow]_vars

ShadowCalled == Len(fn_out) = 1
ShadowOut == fn_out[1]

C4Dir == LightDir(fn_in.light, fn_in.intersect.point)
\* is_intersecting and distance of the shadow intersection with c
C4Hit(c) == CubeHit(c, OffsetOrigin(fn_in.intersect, C4Dir), C4Dir)
\* c is hit by the shadow ray nearer than the light: the ray runs along
\* point[4] * (light - point), so the light is at distance 1 / point[4]
C4Nearer(h) == h.is_intersecting /\ h.distance.n * fn_in.intersect.point[4] < h.distance.d
C4Blocked(objs) == \E k \in DOMAIN objs : C4Nearer(C4Hit(objs[k]))
C4Factor(objs) == CastShadow(fn_in.intersect, fn_in.light, objs)

\* C4: cast_shadow returns 1 when some object is hit by the shadow ray at a
\* distance strictly below the distance of the light, else 0; so a further
\* object never lowers the factor, the order of the objects does not
\* matter, and without objects the factor is 0
C4_ShadowIsBinaryAndMonotone ==
    ShadowCalled =>
        /\ ShadowOut \in {0, 1}
        /\ ShadowOut = 1 <=> C4Blocked(fn_in.objects)
        /\ \A c \in ShadowCubes : C4Factor(Append(fn_in.objects, c)) >= ShadowOut
        /\ \A c \in ShadowCubes : C4Factor(<<c>> \o fn_in.objects) >= ShadowOut
        /\ \A q \in ShadowLists : Range(q) = Range(fn_in.objects) => C4Factor(q) = ShadowOut
        /\ fn_in.objects = <<>> => ShadowOut = 0

\* the first object is hit beyond the light, the second before it
C4_Witness ==
    /\ ShadowCalled
    /\ ShadowOut = 1
    /\ Len(fn_in.objects) = 2
    /\ fn_in.intersect.point[4] > 1
    /\ C4Hit(fn_in.objects[1]).is_intersecting
    /\ ~C4Nearer(C4Hit(fn_in.objects[1]))
    /\ C4Nearer(C4Hit(fn_in.objects[2]))
\* nothing is between the point and the light
C4_WitnessLit ==
    /\ ShadowCalled
    /\ ShadowOut = 0
    /\ Len(fn_in.objects) = 2
    /\ \E k \in 1..2 : C4Hit(fn_in.objects[k]).is_intersecting

----------------------------------------------------------------------------
(* main (src/main.rs:256-460): the loop of key handling and rendering *)

\* |yaw| and |pitch| stay within MaxOrbit steps of rotation_speed, |zoom|
\* within MaxZoom steps of zoom_speed
MaxOrbit == 1
MaxZoom == 1
\* the framebuffer of the model
FbWidth == 2
FbHeight == 2

\* Camera (camera.rs is not among the sources), kept as the orbit and zoom
\* steps applied since Camera::new
CameraNew == [yaw |-> 0, pitch |-> 0, zoom |-> 0]
Orbit(camera, delta_yaw, delta_pitch) ==
    [camera EXCEPT !.yaw = @ + delta_yaw, !.pitch = @ + delta_pitch]
Zoom(camera, amount) == [camera EXCEPT !.zoom = @ + amount]

\* the keys in the order main asks for them
KeyOrder == <<"KEY_LEFT", "KEY_RIGHT", "KEY_UP", "KEY_DOWN", "KEY_W", "KEY_S">>
Keys == Range(KeyOrder)

\* the call each key triggers (main.rs:429-452)
KeyApply(key, camera) ==
    CASE key = "KEY_LEFT" -> Orbit(camera, 1, 0)
      [] key = "KEY_RIGHT" -> Orbit(camera, -1, 0)
      [] key = "KEY_UP" -> Orbit(camera, 0, -1)
      [] key = "KEY_DOWN" -> Orbit(camera, 0, 1)
      [] key = "KEY_W" -> Zoom(camera, 1)
      [] key = "KEY_S" -> Zoom(camera, -1)

\* the keys that keep the camera of the model within its bounds
KeysAllowed(camera, keys) ==
    /\ "KEY_LEFT" \in keys => camera.yaw + 1 <= MaxOrbit
    /\ "KEY_RIGHT" \in keys => camera.yaw - 1 >= -MaxOrbit
    /\ "KEY_UP" \in keys => camera.pitch - 1 >= -MaxOrbit
    /\ "KEY_DOWN" \in keys => camera.pitch + 1 <= MaxOrbit
    /\ "KEY_W" \in keys => camera.zoom + 1 <= MaxZoom
    /\ "KEY_S" \in keys => camera.zoom - 1 >= -MaxZoom

RenderMayStart_Early(key_index) == key_index > 1

\* render comes after the six is_key_down blocks (main.rs:454-457)
RenderMayStart(key_index) == key_index > Len(KeyOrder)

\* the state of main at the head of its loop
MainAtLoop(camera) ==
    [pc |-> "loop", camera |-> camera, before |-> camera, keys |-> {}, key_index |-> 1,
     applied |-> {}, camera_moved |-> FALSE, x |-> 0, y |-> 0, pass |-> <<>>]

\* main up to its loop; assets/skybox.jpg is loaded as well when the file
\* exists (main.rs:274-276)
InitMain ==
    /\ IdleFn
    /\ objects = SkyblockObjects
    /\ light = MainLight
    /\ texture_manager \in {LoadedTextures, LoadedTextures \cup {SkyboxId}}
    /\ stack = <<>>
    /\ status = "idle"
    /\ result = ColorZero
    /\ stats = <<>>
    /\ main = MainAtLoop(CameraNew)

\* window_should_close() (main.rs:425)
MainClose ==
    /\ main.pc = "loop"
    /\ main' = [main EXCEPT !.pc = "closed"]
    /\ UNCHANGED <<fnVars, castVars>>

\* an iteration begins, with the keys that are down during it (main.rs:425-426)
MainIterate ==
    /\ main.pc = "loop"
    /\ \E keys \in SUBSET Keys :
           /\ KeysAllowed(main.camera, keys)
           /\ main' = [MainAtLoop(main.camera) EXCEPT !.pc = "keys", !.keys = keys]
    /\ UNCHANGED <<fnVars, castVars>>

\* one is_key_down block (main.rs:429-452)
MainKey ==
    /\ main.pc = "keys"
    /\ main.key_index <= Len(KeyOrder)
    /\ IF KeyOrder[main.key_index] \in main.keys
       THEN main' = [main EXCEPT !.camera = KeyApply(KeyOrder[main.key_index], @),
                                 !.camera_moved = TRUE,
                                 !.applied = @ \cup {KeyOrder[main.key_index]},
                                 !.key_index = @ + 1]
       ELSE main' = [main EXCEPT !.key_index = @ + 1]
    /\ UNCHANGED <<fnVars, castVars>>

\* if camera_moved { render(..) } (main.rs:455-457, 234-235)
MainRenderStart ==
    /\ main.pc = "keys"
    /\ RenderMayStart(main.key_index)
    /\ main.camera_moved
    /\ main' = [main EXCEPT !.pc = "render", !.x = 0, !.y = 0]
    /\ UNCHANGED <<fnVars, castVars>>

MainRenderSkip ==
    /\ main.pc = "keys"
    /\ RenderMayStart(main.key_index)
    /\ ~main.camera_moved
    /\ main' = [main EXCEPT !.pc = "swap"]
    /\ UNCHANGED <<fnVars, castVars>>

\* the pixel after (x, y) in render's loops, or the end of the pass
AfterPixel(m) ==
    IF m.x + 1 < FbWidth THEN [m EXCEPT !.x = @ + 1]
    ELSE IF m.y + 1 < FbHeight THEN [m EXCEPT !.x = 0, !.y = @ + 1]
    ELSE [m EXCEPT !.pc = "swap"]

\* one pixel of render: the ray from camera.eye through camera.basis_change,
\* cast_ray at depth 0, set_pixel (main.rs:236-250)
MainRenderPixel ==
    /\ main.pc = "render"
    /\ main' = AfterPixel([main EXCEPT !.pass =
                   Append(@, [x |-> main.x, y |-> main.y, camera |-> main.camera])])
    /\ UNCHANGED <<fnVars, castVars>>

\* framebuffer.swap_buffers (main.rs:459)
MainSwapBuffers ==
    /\ main.pc = "swap"
    /\ main' = [main EXCEPT !.pc = "loop"]
    /\ UNCHANGED <<fnVars, castVars>>

NextMain ==
    \/ MainClose
    \/ MainIterate
    \/ MainKey
    \/ MainRenderStart
    \/ MainRenderSkip
    \/ MainRenderPixel
    \/ MainSwapBuffers

SpecMain == InitMain /\ [][NextMain]_vars

\* the camera after the calls of the keys from the k-th on
RECURSIVE C10Applied(_, _, _)
C10Applied(camera, keys, k) ==
    IF k > Len(KeyOrder) THEN camera
    ELSE C10Applied(IF KeyOrder[k] \in keys THEN KeyApply(KeyOrder[k], camera) ELSE camera,
                    keys, k + 1)
Rendering == main.pc = "render"
C10Complete ==
    Rendering => /\ main.applied = main.keys
                 /\ main.camera = C10Applied(main.before, main.keys, 1)
C10OneCamera == \A k \in 1..Len(main.pass) : main.pass[k].camera = main.camera
C10Step ==
    /\ Rendering => main'.camera = main.camera
    /\ objects' = objects
    /\ light' = light

\* C10: when render runs, every orbit and zoom call of the keys held in the
\* iteration has been made; the camera does not change during the pass, so
\* every pixel is traced from the same camera; objects and light never change
C10_CameraSettledBeforeRender == [](C10Complete /\ C10OneCamera) /\ [][C10Step]_vars

\* a pass under way after an orbit and a zoom
C10_Witness ==
    /\ Rendering
    /\ {"KEY_LEFT", "KEY_W"} \subseteq main.keys
    /\ main.camera # main.before
    /\ Len(main.pass) >= 2

\* the coordinates of ray origins for the sphere range over
\* -MaxSphereCoord..MaxSphereCoord and the far coordinates -5 and 5
MaxSphereCoord == 2

UnitSphere == Sphere(VZero, 1, MatFlat)
TestSpheres == {UnitSphere, Sphere(VZero, 5, MatFlat), Sphere(<<1, 0, 0>>, 5, MatFlat)}
SphereCoords == (-MaxSphereCoord..MaxSphereCoord) \cup {-5, 5}

SphereInputs ==
    [sphere : TestSpheres, origin : SphereCoords \X SphereCoords \X SphereCoords,
     direction : Dirs]

InitSphere ==
    /\ fn_in \in SphereInputs
    /\ fn_out = <<>>
    /\ IdleCast
    /\ IdleMain

CallSphereRayIntersect ==
    /\ fn_out = <<>>
    /\ fn_out' = <<SphereRayIntersect(fn_in.sphere, fn_in.origin, fn_in.direction)>>
    /\ UNCHANGED fn_in
    /\ UNCHANGED <<castVars, main>>

NextSphere == CallSphereRayIntersect

SpecSphere == InitSphere /\ [][NextSphere]_vars

SphereCalled == Len(fn_out) = 1
SphereOut == fn_out[1]
C7Q == SphereQuadratic(fn_in.sphere, fn_in.origin, fn_in.direction)
C7IsInstance ==
    /\ fn_in.sphere = UnitSphere
    /\ fn_in.origin = <<0, 0, 5>>
    /\ fn_in.direction = <<0, 0, -1>>

\* the distance returned and the two numbers half a unit of its last place
\* below and above it
C7T == SphereOut.distance
C7Below == FDiv(2 * C7T.m - 1, 2^(1 - C7T.e))
C7Above == FDiv(2 * C7T.m + 1, 2^(1 - C7T.e))
\* the smaller root (-b - s) / 2a for a discriminant that is the square of s
C7Root == FDiv(-C7Q.b - FloorSqrt(C7Q.discriminant), 2 * C7Q.a)
\* the whole part of 2^8 * sqrt(discriminant), and the multiples of
\* 1 / (2^8 * 2a) next to the smaller root: it lies between k / (2^8 * 2a)
\* and (k + 1) / (2^8 * 2a) for k = C7Grid
C7Fine == FloorSqrt(C7Q.discriminant * 2^16)
C7Grid == -C7Q.b * 2^8 - C7Fine - 1
C7GridAt(k) == FDiv(k, 2^9 * C7Q.a)
C7Value(x) == FDiv(x.m, 2^(-x.e))

\* C7: Sphere.ray_intersect returns the no-hit sentinel whenever the
\* discriminant is <= 0 or the smaller root is <= 0 (the sphere is behind the
\* origin, or the origin is on or inside it: b >= 0 or c <= 0), and otherwise a
\* hit whose distance is the smaller root (-b - sqrt(disc)) / 2a as f32 has
\* it: a positive f32 within one step of 1 / (2^8 * 2a) of the root and, when
\* the discriminant is a square, so that the root is a rational number, the
\* f32 nearest to the root.  From (0,0,5) along (0,0,-1) the unit sphere at
\* the origin is hit at 4.0 with normal (0,0,1).
C7_SphereSmallerRoot ==
    SphereCalled =>
        /\ SphereOut.is_intersecting <=>
              (C7Q.discriminant > 0 /\ C7Q.b < 0 /\ C7Q.c > 0)
        /\ ~SphereOut.is_intersecting => SphereOut = IntersectEmpty
        /\ SphereOut.is_intersecting =>
              /\ C7T.m >= 2^23 /\ C7T.m < 2^24 /\ C7T.e < 0
              /\ FLt(C7GridAt(C7Grid - 1), C7Value(C7T))
              /\ FLt(C7Value(C7T), C7GridAt(C7Grid + 2))
              /\ IsSquare(C7Q.discriminant) =>
                    /\ ~FLt(C7Root, C7Below)
                    /\ ~FLt(C7Above, C7Root)
        /\ C7IsInstance =>
              /\ SphereOut.is_intersecting
              /\ C7T = F32Int(4)
              /\ SphereOut.point = F32Vec(<<0, 0, 1>>)
              /\ SphereOut.normal = F32Vec(<<0, 0, 1>>)

\* a hit at a distance that f32 rounds: from (0,-5,-5) along (1,1,1) the
\* sphere of radius 5 at the origin is hit at the f32 nearest to 5/3,
\* 13981013 / 2^23 = 1.66666663
C7_Witness ==
    /\ SphereCalled
    /\ fn_in.sphere = Sphere(VZero, 5, MatFlat)
    /\ fn_in.origin = <<0, -5, -5>>
    /\ fn_in.direction = <<1, 1, 1>>
    /\ SphereOut.is_intersecting
    /\ C7T = [m |-> 13981013, e |-> -23]

\* the instance of C7 has been computed and is a hit
C7_WitnessInstance == SphereCalled /\ C7IsInstance /\ SphereOut.is_intersecting

\* a hit whose discriminant is no square: the root itself is rounded
C7_WitnessRootRounded ==
    /\ SphereCalled
    /\ SphereOut.is_intersecting
    /\ ~IsSquare(C7Q.discriminant)

\* a ray from inside the sphere whose larger root is positive gets no hit
C7_WitnessInside ==
    /\ SphereCalled
    /\ C7Q.c < 0
    /\ C7Q.discriminant > 0
    /\ ~SphereOut.is_intersecting

----------------------------------------------------------------------------
(* refract as a pure function: SpecRefract *)

\* incident and normal components range over -MaxRefractDir..MaxRefractDir
MaxRefractDir == 2

RefractDirs ==
    {d \in (-MaxRefractDir..MaxRefractDir) \X (-MaxRefractDir..MaxRefractDir)
             \X (-MaxRefractDir..MaxRefractDir) : d # VZero}

RefractInputs == [incident : RefractDirs, normal : AxisNormals, refractive_index : {GlassIndex}]

InitRefract ==
    /\ fn_in \in RefractInputs
    /\ fn_out = <<>>
    /\ IdleCast
    /\ IdleMain

CallRefract ==
    /\ fn_out = <<>>
    /\ fn_out' = <<Refract(fn_in.incident, fn_in.normal, fn_in.refractive_index)>>
    /\ UNCHANGED fn_in
    /\ UNCHANGED <<castVars, main>>

NextRefract == CallRefract

SpecRefract == InitRefract /\ [][NextRefract]_vars

RefractCalled == Len(fn_out) = 1
RefractOut == fn_out[1]
C8Dot == Dot(fn_in.incident, fn_in.normal)
C8Len2 == Dot(fn_in.incident, fn_in.incident) * Dot(fn_in.normal, fn_in.normal)
\* 1 - (incident . normal)^2 > (1/1.5)^2 for the unit vectors
C8BeyondCritical == 9 * (C8Len2 - C8Dot * C8Dot) > 4 * C8Len2

\* C8 as first stated: with refractive index 1.5, refract reports None for
\* every unit incident direction with 1 - (incident . normal)^2 > (1/1.5)^2 and
\* Some for every other one.
C8_NoneBeyondCritical ==
    RefractCalled => (RefractOut.some <=> ~C8BeyondCritical)

\* C8, amended: with refractive index 1.5, refract reports None exactly for
\* the incident directions that leave the medium (incident . normal > 0) with
\* 1 - (incident . normal)^2 > (1/1.5)^2; a direction that enters it
\* (incident . normal <= 0) gets Some at every angle.
C8_NoneBeyondCriticalLeaving ==
    RefractCalled => (RefractOut.some <=> ~(C8Dot > 0 /\ C8BeyondCritical))

\* a leaving ray beyond the critical angle got None
C8_Witness == RefractCalled /\ C8Dot > 0 /\ C8BeyondCritical /\ ~RefractOut.some

\* an entering ray beyond the critical angle got Some
C8_WitnessEntering == RefractCalled /\ C8Dot < 0 /\ C8BeyondCritical /\ RefractOut.some

====
